---- MODULE Spec2Model ----
(***************************************************************************)
(* A model of dependency_graph/build_graph.py: the repository walk with    *)
(* its pruning stack, the assembly of entity nodes and Contains edges, the *)
(* import pass (add_imports / resolve_module) and the resolution pass      *)
(* (find_all_possible_callee, the name table, Invokes / Inherits edges).   *)
(*                                                                         *)
(* Strings of the program (paths, node keys, dotted names) are sequences   *)
(* of one-character strings, so that startswith, endswith, split and the   *)
(* substring test of the code are computed as the code computes them.      *)
(***************************************************************************)
EXTENDS Naturals, Sequences, FiniteSets

(***************************************************************************)
(* String primitives (Python str methods used by the code).                *)
(***************************************************************************)

\* the value None (an absent alias, the parent find_parent did not find)
None == << >>

\* str.startswith
StartsWith(s, p) == Len(p) <= Len(s) /\ SubSeq(s, 1, Len(p)) = p

\* str.endswith
EndsWith(s, p) == Len(p) <= Len(s) /\ SubSeq(s, Len(s) - Len(p) + 1, Len(s)) = p

\* the operator `p in s` on strings
HasSub(s, p) == \E i \in 1..(Len(s) + 1) : i + Len(p) - 1 <= Len(s) /\ SubSeq(s, i, i + Len(p) - 1) = p

\* position of the first occurrence of character c in s, 0 when absent
FirstAt(s, c) == IF \E i \in 1..Len(s) : s[i] = c THEN CHOOSE i \in 1..Len(s) : s[i] = c /\ \A j \in 1..(i - 1) : s[j] # c ELSE 0

\* position of the last occurrence of character c in s, 0 when absent
LastAt(s, c) == IF \E i \in 1..Len(s) : s[i] = c THEN CHOOSE i \in 1..Len(s) : s[i] = c /\ \A j \in (i + 1)..Len(s) : s[j] # c ELSE 0

\* s.split(c)[0]
SplitFirst(s, c) == IF FirstAt(s, c) = 0 THEN s ELSE SubSeq(s, 1, FirstAt(s, c) - 1)

\* s.split(c)[-1]
SplitLast(s, c) == SubSeq(s, LastAt(s, c) + 1, Len(s))

\* '.'.join(s.split('.')[:-1]) for a name that holds a dot
DropLast(s, c) == SubSeq(s, 1, LastAt(s, c) - 1)

\* os.path.dirname of a relative path
PathDirname(p) == IF LastAt(p, "/") = 0 THEN << >> ELSE SubSeq(p, 1, LastAt(p, "/") - 1)

\* os.path.join(dirname, name) relative to the repository root ('/' is the root)
PathJoin(d, name) == IF d = <<"/">> THEN name ELSE d \o <<"/">> \o name

\* module_name.replace('.', '/')
DotsToSlashes(s) == [i \in 1..Len(s) |-> IF s[i] = "." THEN "/" ELSE s[i]]

\* the elements of a sequence
Range(s) == {s[i] : i \in 1..Len(s)}

\* a sequence without repetitions, first occurrences kept in order
Dedup(s) == LET idx == {i \in 1..Len(s) : \A j \in 1..(i - 1) : s[j] # s[i]} IN [k \in 1..Cardinality(idx) |-> s[CHOOSE i \in idx : Cardinality({j \in idx : j < i}) = k - 1]]

\* the concatenation of a sequence of sequences
RECURSIVE Flatten(_)
Flatten(ss) == IF ss = << >> THEN << >> ELSE LET front == Flatten(SubSeq(ss, 1, Len(ss) - 1)) IN front \o ss[Len(ss)]

\* all orders of a finite set, as sequences
RECURSIVE Perms(_)
Perms(S) == IF S = {} THEN {<< >>} ELSE UNION {{<<x>> \o p : p \in Perms(S \ {x})} : x \in S}

(***************************************************************************)
(* Program constants.                                                      *)
(***************************************************************************)

NODE_TYPE_DIRECTORY == "directory"
NODE_TYPE_FILE == "file"
NODE_TYPE_CLASS == "class"
NODE_TYPE_FUNCTION == "function"
NODE_TYPE_METHOD == "method"
NODE_TYPE_INTERFACE == "interface"
NODE_TYPE_ENUM == "enum"
NODE_TYPE_PACKAGE == "package"
EDGE_TYPE_CONTAINS == "contains"
EDGE_TYPE_INHERITS == "inherits"
EDGE_TYPE_INVOKES == "invokes"
EDGE_TYPE_IMPORTS == "imports"

VALID_NODE_TYPES == {NODE_TYPE_DIRECTORY, NODE_TYPE_FILE, NODE_TYPE_CLASS, NODE_TYPE_FUNCTION, NODE_TYPE_METHOD, NODE_TYPE_INTERFACE, NODE_TYPE_ENUM, NODE_TYPE_PACKAGE}

VALID_EDGE_TYPES == {EDGE_TYPE_CONTAINS, EDGE_TYPE_INHERITS, EDGE_TYPE_INVOKES, EDGE_TYPE_IMPORTS}

\* the node types the third pass resolves
DEFINITION_TYPES == {NODE_TYPE_CLASS, NODE_TYPE_FUNCTION, NODE_TYPE_METHOD, NODE_TYPE_INTERFACE, NODE_TYPE_ENUM}

SKIP_DIRS == {<<".", "g", "i", "t", "h", "u", "b">>, <<".", "g", "i", "t">>}

ROOT == <<"/">>
PY == <<".", "p", "y">>
JAVA == <<".", "j", "a", "v", "a">>
INIT_PY == <<"_", "_", "i", "n", "i", "t", "_", "_", ".", "p", "y">>
EXTERNAL == <<"e", "x", "t", "e", "r", "n", "a", "l", ":">>

is_skip_dir(dirname) == \E skip_dir \in SKIP_DIRS : HasSub(dirname, skip_dir)

\* file.endswith('.py') or file.endswith('.java')
IsSupported(file) == EndsWith(file, PY) \/ EndsWith(file, JAVA)

(***************************************************************************)
(* The graph: nx.MultiDiGraph.  nodes is the node dictionary in insertion  *)
(* order (key, type attribute; "" when the node has no type attribute),    *)
(* edges the multiset of edges in insertion order.                         *)
(***************************************************************************)

NodeKeys(ns) == {ns[i].key : i \in 1..Len(ns)}

\* graph.has_node
has_node(ns, k) == \E i \in 1..Len(ns) : ns[i].key = k

\* the position of key k in the node dictionary
NodeIndex(ns, k) == CHOOSE i \in 1..Len(ns) : ns[i].key = k

\* graph.nodes[k].get('type'), "" for a node without the attribute or a missing node
NodeType(ns, k) == IF has_node(ns, k) THEN ns[NodeIndex(ns, k)].type ELSE ""

\* graph.add_node(k, type=t): a new key is appended, an old one has its attribute updated
add_node(ns, k, t) == IF has_node(ns, k) THEN [i \in 1..Len(ns) |-> IF ns[i].key = k THEN [key |-> k, type |-> t] ELSE ns[i]] ELSE Append(ns, [key |-> k, type |-> t])

\* the nodes graph.add_edge(u, v) creates without attributes when u or v is missing
ImplicitNodes(ns, u, v) == LET n1 == IF has_node(ns, u) THEN ns ELSE Append(ns, [key |-> u, type |-> ""]) IN IF has_node(n1, v) THEN n1 ELSE Append(n1, [key |-> v, type |-> ""])

\* the edge record graph.add_edge(u, v, type=t, alias=a) appends
Edge(u, v, t, a) == [src |-> u, dst |-> v, type |-> t, alias |-> a]

\* graph.remove_node(k): the node and every edge at it
RemoveNodeNodes(ns, k) == SelectSeq(ns, LAMBDA n : n.key # k)

RemoveNodeEdges(es, k) == SelectSeq(es, LAMBDA e : e.src # k /\ e.dst # k)

\* the neighbours of src in the order its adjacency dictionary holds them
Neighbours(es, src) == LET out == SelectSeq(es, LAMBDA e : e.src = src) IN Dedup([k \in 1..Len(out) |-> out[k].dst])

\* graph.edges(src, data=True) for a node src: its out-edges grouped by neighbour
EdgesFrom(es, src) == LET out == SelectSeq(es, LAMBDA e : e.src = src) nb == Dedup([k \in 1..Len(out) |-> out[k].dst]) IN IF Len(nb) = Len(out) THEN out ELSE Flatten([j \in 1..Len(nb) |-> SelectSeq(out, LAMBDA e : e.dst = nb[j])])

\* graph.edges(src, data=True); with src = None networkx yields every edge of the graph
OutEdges(ns, es, src) == IF src = None THEN Flatten([i \in 1..Len(ns) |-> EdgesFrom(es, ns[i].key)]) ELSE EdgesFrom(es, src)

\* graph.add_edge(u, v, type=t, alias=a) on the graph record
add_edge(G, u, v, t, a) == [nodes |-> ImplicitNodes(G.nodes, u, v), edges |-> Append(G.edges, Edge(u, v, t, a))]

\* graph.remove_node(k) on the graph record
remove_node(G, k) == [nodes |-> RemoveNodeNodes(G.nodes, k), edges |-> RemoveNodeEdges(G.edges, k)]

(***************************************************************************)
(* The repository on disk and what the analyzers return for it.            *)
(*   repo.dirs  : the directories below the root (relative paths)          *)
(*   repo.files : records [dir, name, status, entities, imports]           *)
(*     status   : "regular", "symlink", "unreadable" (open is refused),    *)
(*                "undecodable" or "unparsable"                            *)
(*     entities : what analyze_file returns, in order; each entity is      *)
(*                [name, type, calls, bases, imports]: its dotted name,    *)
(*                its node type, the call names and base names its own     *)
(*                declaration holds, the import statements directly in     *)
(*                its body                                                 *)
(*     imports  : the import statements at the top level of the file       *)
(***************************************************************************)

VARIABLES repo, fuzzy_search, global_import, pc, graph, file_nodes, dir_stack, dir_include_stack, todo, dirname, files_todo, dir_has_code, imp_idx, global_name_dict, res_idx, run, first, java_unit, java_nodes

vars == <<repo, fuzzy_search, global_import, pc, graph, file_nodes, dir_stack, dir_include_stack, todo, dirname, files_todo, dir_has_code, imp_idx, global_name_dict, res_idx, run, first, java_unit, java_nodes>>

\* os.path.relpath(root, repo_path) with '.' already replaced by '/'
SubDirs(r, d) == {x \in r.dirs : IF d = ROOT THEN PathDirname(x) = << >> ELSE PathDirname(x) = d}

FilesIn(r, d) == {f \in r.files : f.dir = d}

\* os.path.relpath(file_path, repo_path)
Filename(f) == PathJoin(f.dir, f.name)

\* the files os.path.isfile finds (a symlink to a file is a file)
DiskFiles(r) == {Filename(f) : f \in r.files}

\* the file record behind a relative path
FileAt(r, filename) == CHOOSE f \in r.files : Filename(f) = filename

(***************************************************************************)
(* First pass: the walk (build_graph, "add nodes").                        *)
(***************************************************************************)

\* lines 386-391: leave the directories of the stack that dirname does not start with
RECURSIVE PopLeft(_, _, _, _)
PopLeft(G, stack, incl, d) == IF Len(stack) > 0 /\ ~StartsWith(d, stack[Len(stack)]) THEN PopLeft(IF ~incl[Len(incl)] THEN remove_node(G, stack[Len(stack)]) ELSE G, SubSeq(stack, 1, Len(stack) - 1), SubSeq(incl, 1, Len(incl) - 1), d) ELSE [graph |-> G, dir_stack |-> stack, dir_include_stack |-> incl]

\* lines 379-383: the Directory node and the Contains edge from its parent
AddDirectory(G, d) == add_edge([nodes |-> add_node(G.nodes, d, NODE_TYPE_DIRECTORY), edges |-> G.edges], IF PathDirname(d) = << >> THEN ROOT ELSE PathDirname(d), d, EDGE_TYPE_CONTAINS, None)

\* one iteration of `for root, _, files in os.walk(repo_path)` up to the file loop
WalkDir ==
    /\ pc = "walk"
    /\ todo # << >>
    /\ \E subs \in Perms(SubDirs(repo, Head(todo))), fs \in Perms(FilesIn(repo, Head(todo))) :
        LET d == Head(todo)
            G1 == IF d = ROOT THEN graph ELSE AddDirectory(graph, d)
            P == PopLeft(G1, dir_stack, dir_include_stack, d)
        IN  /\ todo' = subs \o Tail(todo)
            /\ IF d # ROOT /\ is_skip_dir(d)
               THEN UNCHANGED <<graph, dir_stack, dir_include_stack, dirname, files_todo, dir_has_code, pc>>
               ELSE /\ graph' = P.graph
                    /\ dir_stack' = IF d # ROOT THEN Append(P.dir_stack, d) ELSE P.dir_stack
                    /\ dir_include_stack' = IF d # ROOT THEN Append(P.dir_include_stack, FALSE) ELSE P.dir_include_stack
                    /\ dirname' = d
                    /\ files_todo' = fs
                    /\ dir_has_code' = FALSE
                    /\ pc' = "files"
    /\ UNCHANGED <<repo, fuzzy_search, global_import, file_nodes, imp_idx, global_name_dict, res_idx, run, first, java_unit, java_nodes>>

\* analyze_file raises SyntaxError: only the Python back end does (analyze_java_file
\* catches every exception and returns [])
AnalyzeRaises(f) == EndsWith(f.name, PY) /\ f.status = "unparsable"

\* analyze_file(file_path)
analyze_file(f) == IF f.status = "unparsable" THEN << >> ELSE f.entities

\* lines 420-424: graph.add_node('<filename>:<name>', **attrs) for every entity in order:
\* a key enters the dictionary where the first entity names it and holds the attributes
\* of the last entity that names it
AddEntityNodes(ns, filename, ents) == LET keys == [i \in 1..Len(ents) |-> filename \o <<":">> \o ents[i].name] attrs(k) == ents[CHOOSE i \in 1..Len(ents) : keys[i] = k /\ \A j \in (i + 1)..Len(ents) : keys[j] # k].type fresh == SelectSeq(Dedup(keys), LAMBDA k : ~has_node(ns, k)) IN [i \in 1..Len(ns) |-> IF \E j \in 1..Len(keys) : keys[j] = ns[i].key THEN [key |-> ns[i].key, type |-> attrs(ns[i].key)] ELSE ns[i]] \o [i \in 1..Len(fresh) |-> [key |-> fresh[i], type |-> attrs(fresh[i])]]

\* lines 430-435: the source of the Contains edge of an entity: the file for a plain
\* name, '<filename>:<parent name>' for a dotted one
EntityParent(filename, name) == IF LastAt(name, ".") = 0 THEN filename ELSE filename \o <<":">> \o DropLast(name, ".")

\* lines 437-438: a Package node for every parent name that has no node yet, in the
\* order the entities name them
AddPlaceholders(ns, filename, ents) == LET parents == Dedup([i \in 1..Len(ents) |-> EntityParent(filename, ents[i].name)]) missing == SelectSeq(parents, LAMBDA k : ~has_node(ns, k)) IN ns \o [i \in 1..Len(missing) |-> [key |-> missing[i], type |-> NODE_TYPE_PACKAGE]]

\* lines 428-439: the Contains edges of the entities of a file, one per entity in order
\* (both ends of each edge are nodes by then)
AddEntityEdges(G, filename, ents) == [nodes |-> AddPlaceholders(G.nodes, filename, ents), edges |-> G.edges \o [i \in 1..Len(ents) |-> Edge(EntityParent(filename, ents[i].name), filename \o <<":">> \o ents[i].name, EDGE_TYPE_CONTAINS, None)]]

\* lines 402-439 for a file that was read: File node, entity nodes, Contains edges
AddFile(G, d, f) == IF AnalyzeRaises(f) THEN [nodes |-> add_node(G.nodes, Filename(f), NODE_TYPE_FILE), edges |-> G.edges] ELSE AddEntityEdges(add_edge([nodes |-> AddEntityNodes(add_node(G.nodes, Filename(f), NODE_TYPE_FILE), Filename(f), analyze_file(f)), edges |-> G.edges], d, Filename(f), EDGE_TYPE_CONTAINS, None), Filename(f), analyze_file(f))

\* a variant of IsRead: only a symbolic link is left out
IsReadUnlessSymlink(f) == f.status # "symlink"

\* the file is read: not a symlink (line 405) and decodable (line 408)
IsRead(f) == f.status \notin {"symlink", "undecodable"}

\* open(file_path, 'r', encoding='utf-8') raises OSError (line 408): the exception is
\* none of (UnicodeDecodeError, SyntaxError) and leaves build_graph
OpenRaises(f) == f.status = "unreadable"

\* one iteration of `for file in files` (lines 397-439)
WalkFile ==
    /\ pc = "files"
    /\ files_todo # << >>
    /\ LET f == Head(files_todo)
       IN  /\ files_todo' = Tail(files_todo)
           /\ dir_has_code' = (dir_has_code \/ IsSupported(f.name))
           /\ pc' = IF IsSupported(f.name) /\ OpenRaises(f) THEN "aborted" ELSE pc
           /\ graph' = IF IsSupported(f.name) /\ IsRead(f) /\ ~OpenRaises(f) THEN AddFile(graph, dirname, f) ELSE graph
           /\ file_nodes' = IF IsSupported(f.name) /\ IsRead(f) /\ ~OpenRaises(f) THEN Append(file_nodes, Filename(f)) ELSE file_nodes
    /\ UNCHANGED <<repo, fuzzy_search, global_import, dir_stack, dir_include_stack, todo, dirname, imp_idx, global_name_dict, res_idx, run, first, java_unit, java_nodes>>

\* lines 441-444: a directory with code keeps every directory of the stack
KeepParents ==
    /\ pc = "files"
    /\ files_todo = << >>
    /\ dir_include_stack' = IF dir_has_code THEN [i \in 1..Len(dir_include_stack) |-> TRUE] ELSE dir_include_stack
    /\ pc' = "walk"
    /\ UNCHANGED <<repo, fuzzy_search, global_import, graph, file_nodes, dir_stack, todo, dirname, files_todo, dir_has_code, imp_idx, global_name_dict, res_idx, run, first, java_unit, java_nodes>>

\* lines 446-451: the directories still on the stack when the walk ends
RECURSIVE PopAll(_, _, _)
PopAll(G, stack, incl) == IF Len(stack) > 0 THEN PopAll(IF ~incl[Len(incl)] THEN remove_node(G, stack[Len(stack)]) ELSE G, SubSeq(stack, 1, Len(stack) - 1), SubSeq(incl, 1, Len(incl) - 1)) ELSE G

PruneLast ==
    /\ pc = "walk"
    /\ todo = << >>
    /\ graph' = PopAll(graph, dir_stack, dir_include_stack)
    /\ dir_stack' = << >>
    /\ dir_include_stack' = << >>
    /\ imp_idx' = 1
    /\ pc' = "imports"
    /\ UNCHANGED <<repo, fuzzy_search, global_import, file_nodes, todo, dirname, files_todo, dir_has_code, global_name_dict, res_idx, run, first, java_unit, java_nodes>>

(***************************************************************************)
(* Second pass: imports (find_imports, resolve_module, add_imports).       *)
(***************************************************************************)

\* resolve_java_module: '<a/b>.java' (its second attempt builds the same path)
resolve_java_module(r, module_name) == IF DotsToSlashes(module_name) \o JAVA \in DiskFiles(r) THEN DotsToSlashes(module_name) \o JAVA ELSE None

\* resolve_module, as the path relative to the repository (None when nothing is found)
resolve_module(r, module_name) == LET base == DotsToSlashes(module_name) IN IF base \o PY \in DiskFiles(r) THEN base \o PY ELSE IF base \o <<"/">> \o INIT_PY \in DiskFiles(r) THEN base \o <<"/">> \o INIT_PY ELSE resolve_java_module(r, module_name)

\* a variant of AddExternal: the edge is added only together with a new node
AddExternalOnlyNew(G, root_node, name, t, alias) == LET virtual_node == EXTERNAL \o name IN IF has_node(G.nodes, virtual_node) THEN G ELSE add_edge([nodes |-> add_node(G.nodes, virtual_node, t), edges |-> G.edges], root_node, virtual_node, EDGE_TYPE_IMPORTS, alias)

\* lines 281-285 / 299-303 / 326-330: the virtual node of an unresolved name and the edge to it
AddExternal(G, root_node, name, t, alias) == LET virtual_node == EXTERNAL \o name IN add_edge([nodes |-> IF has_node(G.nodes, virtual_node) THEN G.nodes ELSE add_node(G.nodes, virtual_node, t), edges |-> G.edges], root_node, virtual_node, EDGE_TYPE_IMPORTS, alias)

\* a variant of AddPlainImport: the edge to the resolved file is added whether or not
\* the file is a node
AddPlainImportUnguarded(r, G, root_node, module_name, alias) == LET module_path == resolve_module(r, module_name) IN IF module_path # None THEN add_edge(G, root_node, module_path, EDGE_TYPE_IMPORTS, alias) ELSE AddExternal(G, root_node, module_name, NODE_TYPE_FILE, alias)

\* lines 274-285 and 293-303: 'import module [as alias]' and 'from module import *'
AddPlainImport(r, G, root_node, module_name, alias) == LET module_path == resolve_module(r, module_name) IN IF module_path # None THEN (IF has_node(G.nodes, module_path) THEN add_edge(G, root_node, module_path, EDGE_TYPE_IMPORTS, alias) ELSE G) ELSE AddExternal(G, root_node, module_name, NODE_TYPE_FILE, alias)

\* a variant of AddNamedImport: a name that resolves to nothing in the repository is dropped
AddNamedImportNoExternal(r, G, root_node, module_name, entity) == LET entity_module_name == module_name \o <<".">> \o entity.name entity_module_path == resolve_module(r, entity_module_name) module_path == resolve_module(r, module_name) node == module_path \o <<":">> \o entity.name IN IF entity_module_path # None THEN (IF has_node(G.nodes, entity_module_path) THEN add_edge(G, root_node, entity_module_path, EDGE_TYPE_IMPORTS, entity.alias) ELSE G) ELSE IF module_path # None THEN (IF has_node(G.nodes, node) THEN add_edge(G, root_node, node, EDGE_TYPE_IMPORTS, entity.alias) ELSE IF has_node(G.nodes, module_path) THEN add_edge(G, root_node, module_path, EDGE_TYPE_IMPORTS, entity.alias) ELSE G) ELSE G

\* a variant of AddNamedImport: a name found in the module's file is linked to the
\* attribute node and to the file
AddNamedImportBoth(r, G, root_node, module_name, entity) == LET entity_module_name == module_name \o <<".">> \o entity.name entity_module_path == resolve_module(r, entity_module_name) module_path == resolve_module(r, module_name) node == module_path \o <<":">> \o entity.name IN IF entity_module_path # None THEN (IF has_node(G.nodes, entity_module_path) THEN add_edge(G, root_node, entity_module_path, EDGE_TYPE_IMPORTS, entity.alias) ELSE G) ELSE IF module_path # None THEN (IF has_node(G.nodes, node) THEN add_edge(add_edge(G, root_node, node, EDGE_TYPE_IMPORTS, entity.alias), root_node, module_path, EDGE_TYPE_IMPORTS, entity.alias) ELSE IF has_node(G.nodes, module_path) THEN add_edge(G, root_node, module_path, EDGE_TYPE_IMPORTS, entity.alias) ELSE G) ELSE AddExternal(G, root_node, entity_module_name, NODE_TYPE_CLASS, entity.alias)

\* lines 307-330: one name of 'from module import name [as alias]'
AddNamedImport(r, G, root_node, module_name, entity) == LET entity_module_name == module_name \o <<".">> \o entity.name entity_module_path == resolve_module(r, entity_module_name) module_path == resolve_module(r, module_name) node == module_path \o <<":">> \o entity.name IN IF entity_module_path # None THEN (IF has_node(G.nodes, entity_module_path) THEN add_edge(G, root_node, entity_module_path, EDGE_TYPE_IMPORTS, entity.alias) ELSE G) ELSE IF module_path # None THEN (IF has_node(G.nodes, node) THEN add_edge(G, root_node, node, EDGE_TYPE_IMPORTS, entity.alias) ELSE IF has_node(G.nodes, module_path) THEN add_edge(G, root_node, module_path, EDGE_TYPE_IMPORTS, entity.alias) ELSE G) ELSE AddExternal(G, root_node, entity_module_name, NODE_TYPE_CLASS, entity.alias)

\* lines 306-330: the names of one 'from' statement
RECURSIVE AddNamedImports(_, _, _, _, _)
AddNamedImports(r, G, root_node, module_name, entities) == IF entities = << >> THEN G ELSE LET front == AddNamedImports(r, G, root_node, module_name, SubSeq(entities, 1, Len(entities) - 1)) IN AddNamedImport(r, front, root_node, module_name, entities[Len(entities)])

\* one import record (lines 272-330)
AddImport(r, G, root_node, imp) == IF imp.type = "import" THEN AddPlainImport(r, G, root_node, imp.module, imp.alias) ELSE IF Len(imp.entities) = 1 /\ imp.entities[1].name = <<"*">> THEN AddPlainImport(r, G, root_node, imp.module, None) ELSE AddNamedImports(r, G, root_node, imp.module, imp.entities)

\* add_imports(root_node, imports, graph, repo_path)
RECURSIVE add_imports(_, _, _, _)
add_imports(r, G, root_node, imports) == IF imports = << >> THEN G ELSE LET front == add_imports(r, G, root_node, SubSeq(imports, 1, Len(imports) - 1)) IN AddImport(r, front, root_node, imports[Len(imports)])

\* the nesting depth of a dotted name below its file
Depth(name) == Cardinality({i \in 1..Len(name) : name[i] = "."})

\* the import statements inside the entities of a file, outermost entities first (ast.walk)
NestedImports(f) == LET ents == f.entities IN Flatten([d \in 1..(Len(ents) + 1) |-> Flatten([i \in 1..Len(ents) |-> IF Depth(ents[i].name) = d - 1 THEN ents[i].imports ELSE << >>])])

\* a variant of find_imports: only the import statements at the top level of the file
find_imports_top_level(f) == IF f.status = "unparsable" THEN << >> ELSE f.imports

\* find_imports(filepath, repo_path) of the second pass: for Python every import
\* statement of the file (ast.walk), for Java the import declarations of the file
find_imports(f) == IF EndsWith(f.name, PY) THEN f.imports \o NestedImports(f) ELSE IF f.status = "unparsable" THEN << >> ELSE f.imports

\* find_imports raises SyntaxError (Python file that does not parse)
FindImportsRaises(f) == EndsWith(f.name, PY) /\ f.status = "unparsable"

\* one iteration of `for filename, filepath in file_nodes.items()` (lines 454-459)
AddImportsOfFile ==
    /\ pc = "imports"
    /\ imp_idx <= Len(file_nodes)
    /\ graph' = IF FindImportsRaises(FileAt(repo, file_nodes[imp_idx])) THEN graph ELSE add_imports(repo, graph, file_nodes[imp_idx], find_imports(FileAt(repo, file_nodes[imp_idx])))
    /\ imp_idx' = imp_idx + 1
    /\ UNCHANGED <<repo, fuzzy_search, global_import, pc, file_nodes, dir_stack, dir_include_stack, todo, dirname, files_todo, dir_has_code, global_name_dict, res_idx, run, first, java_unit, java_nodes>>

\* node.split(':')[-1].split('.')[-1]
ShortName(node) == SplitLast(SplitLast(node, ":"), ".")

\* node.split(':')[-1]
FullName(node) == SplitLast(node, ":")

\* node.split(':')[0]
NodeFile(node) == SplitFirst(node, ":")

\* lines 461-465: the global index, kept as the node keys it was built from
BuildGlobalIndex ==
    /\ pc = "imports"
    /\ imp_idx > Len(file_nodes)
    /\ global_name_dict' = IF global_import THEN [i \in 1..Len(graph.nodes) |-> graph.nodes[i].key] ELSE << >>
    /\ res_idx' = 1
    /\ pc' = "resolve"
    /\ UNCHANGED <<repo, fuzzy_search, global_import, graph, file_nodes, dir_stack, dir_include_stack, todo, dirname, files_todo, dir_has_code, imp_idx, run, first, java_unit, java_nodes>>

\* a variant of GlobalGet: only the first node of the index under the name
GlobalGetFirst(index, callee_name) == LET all == SelectSeq(index, LAMBDA k : ShortName(k) = callee_name) IN IF all = << >> THEN << >> ELSE <<all[1]>>

\* global_name_dict.get(callee_name)
GlobalGet(index, callee_name) == SelectSeq(index, LAMBDA k : ShortName(k) = callee_name)

(***************************************************************************)
(* Third pass: the scope walk (get_inner_nodes, find_all_possible_callee). *)
(***************************************************************************)

\* get_inner_nodes(query_node, src_node, graph), and its loop over the edges of src_node
RECURSIVE get_inner_nodes(_, _, _)
\* a variant of InnerOfEdges: the nodes a node invokes are collected like its members
InnerOfEdgesAndCalls(G, query_node, es) == Flatten([i \in 1..Len(es) |-> IF es[i].type \in {EDGE_TYPE_CONTAINS, EDGE_TYPE_INVOKES} /\ es[i].dst # query_node THEN <<es[i].dst>> \o (IF es[i].type = EDGE_TYPE_CONTAINS /\ NodeType(G.nodes, es[i].dst) = NODE_TYPE_CLASS THEN get_inner_nodes(G, query_node, es[i].dst) ELSE << >>) ELSE << >>])

\* a variant of InnerOfEdges: a contained node is collected only when it is a class
InnerOfEdgesClassesOnly(G, query_node, es) == Flatten([i \in 1..Len(es) |-> IF es[i].type = EDGE_TYPE_CONTAINS /\ es[i].dst # query_node /\ NodeType(G.nodes, es[i].dst) = NODE_TYPE_CLASS THEN <<es[i].dst>> \o get_inner_nodes(G, query_node, es[i].dst) ELSE << >>])

InnerOfEdges(G, query_node, es) == Flatten([i \in 1..Len(es) |-> IF es[i].type = EDGE_TYPE_CONTAINS /\ es[i].dst # query_node THEN <<es[i].dst>> \o (IF NodeType(G.nodes, es[i].dst) = NODE_TYPE_CLASS THEN get_inner_nodes(G, query_node, es[i].dst) ELSE << >>) ELSE << >>])

get_inner_nodes(G, query_node, src_node) == InnerOfEdges(G, query_node, OutEdges(G.nodes, G.edges, src_node))

\* the predecessors of a node in the order its predecessor dictionary holds them
Predecessors(G, n) == LET into == SelectSeq(G.edges, LAMBDA e : e.dst = n) IN Dedup([k \in 1..Len(into) |-> into[k].src])

\* find_parent: the first predecessor with a Contains edge to the node, None without one
find_parent(G, n) == LET into == SelectSeq(G.edges, LAMBDA e : e.dst = n) preds == Dedup([k \in 1..Len(into) |-> into[k].src]) parents == SelectSeq(preds, LAMBDA q : \E k \in 1..Len(into) : into[k].src = q /\ into[k].type = EDGE_TYPE_CONTAINS) IN IF parents = << >> THEN None ELSE parents[1]

\* a variant of ScanAggregators: the file the walk stands on is not left out
RECURSIVE ScanAggregatorsWithStart(_, _, _, _)
ScanAggregatorsWithStart(G, cur_node, es, st) == IF es = << >> THEN st ELSE LET front == ScanAggregatorsWithStart(G, cur_node, SubSeq(es, 1, Len(es) - 1), st) e == es[Len(es)] IN IF e.type = EDGE_TYPE_IMPORTS /\ e.dst \notin Range(front.file_list) /\ NodeType(G.nodes, e.dst) = NODE_TYPE_FILE /\ EndsWith(e.dst, INIT_PY) THEN [file_list |-> Append(front.file_list, e.dst), file_stack |-> Append(front.file_stack, e.dst)] ELSE front

\* lines 625-629 for the edges of one popped file: the aggregator files not yet listed
RECURSIVE ScanAggregators(_, _, _, _)
ScanAggregators(G, cur_node, es, st) == IF es = << >> THEN st ELSE LET front == ScanAggregators(G, cur_node, SubSeq(es, 1, Len(es) - 1), st) e == es[Len(es)] IN IF e.type = EDGE_TYPE_IMPORTS /\ e.dst \notin Range(front.file_list) \cup {cur_node} /\ NodeType(G.nodes, e.dst) = NODE_TYPE_FILE /\ EndsWith(e.dst, INIT_PY) THEN [file_list |-> Append(front.file_list, e.dst), file_stack |-> Append(front.file_stack, e.dst)] ELSE front

\* lines 622-629: the worklist over imported '__init__.py' files
RECURSIVE AggregatorFiles(_, _, _)
AggregatorFiles(G, cur_node, st) == IF st.file_stack = << >> THEN st.file_list ELSE AggregatorFiles(G, cur_node, ScanAggregators(G, cur_node, OutEdges(G.nodes, G.edges, st.file_stack[Len(st.file_stack)]), [file_list |-> st.file_list, file_stack |-> SubSeq(st.file_stack, 1, Len(st.file_stack) - 1)]))

\* a variant of ImportCandidates: an imported node is a candidate only when it is a function
ImportCandidatesFunctionsOnly(G, query_node, file) == LET es == OutEdges(G.nodes, G.edges, file) IN Flatten([i \in 1..Len(es) |-> IF es[i].type = EDGE_TYPE_IMPORTS THEN (IF NodeType(G.nodes, es[i].dst) \in {NODE_TYPE_FILE, NODE_TYPE_CLASS} THEN get_inner_nodes(G, query_node, es[i].dst) ELSE << >>) \o (IF NodeType(G.nodes, es[i].dst) = NODE_TYPE_FUNCTION THEN <<es[i].dst>> ELSE << >>) ELSE << >>])

\* lines 637-640 and 647-650: the candidates the Imports edges of a file give, in the
\* order of the edges: the members of an imported file or class, then an imported
\* function or class itself
ImportCandidates(G, query_node, file) == LET es == OutEdges(G.nodes, G.edges, file) IN Flatten([i \in 1..Len(es) |-> IF es[i].type = EDGE_TYPE_IMPORTS THEN (IF NodeType(G.nodes, es[i].dst) \in {NODE_TYPE_FILE, NODE_TYPE_CLASS} THEN get_inner_nodes(G, query_node, es[i].dst) ELSE << >>) \o (IF NodeType(G.nodes, es[i].dst) \in {NODE_TYPE_FUNCTION, NODE_TYPE_CLASS} THEN <<es[i].dst>> ELSE << >>) ELSE << >>])

\* lines 635-636 and 645-646: the (alias, node) bindings the Imports edges of a file
\* give, in the order of the edges
ImportAliases(G, file) == LET es == SelectSeq(OutEdges(G.nodes, G.edges, file), LAMBDA e : e.type = EDGE_TYPE_IMPORTS /\ e.alias # None) IN [i \in 1..Len(es) |-> [alias |-> es[i].alias, node |-> es[i].dst]]

\* the dictionary callee_alias after the assignments callee_alias[alias] = node in order:
\* an alias stands where it was first bound and holds the node it was last bound to
AliasDict(pairs) == LET names == Dedup([i \in 1..Len(pairs) |-> pairs[i].alias]) IN [k \in 1..Len(names) |-> pairs[CHOOSE i \in 1..Len(pairs) : pairs[i].alias = names[k] /\ \A j \in (i + 1)..Len(pairs) : pairs[j].alias # names[k]]]

\* lines 619-652: what the walk collects when it stands on the File node cur_node: for
\* every aggregator file its members and what it imports, then what cur_node imports
AtFile(G, cur_node) == LET file_list == AggregatorFiles(G, cur_node, [file_list |-> << >>, file_stack |-> <<cur_node>>]) IN [callee_nodes |-> Flatten([i \in 1..Len(file_list) |-> get_inner_nodes(G, cur_node, file_list[i]) \o ImportCandidates(G, file_list[i], file_list[i])]) \o ImportCandidates(G, cur_node, cur_node), callee_alias |-> AliasDict(Flatten([i \in 1..Len(file_list) |-> ImportAliases(G, file_list[i])]) \o ImportAliases(G, cur_node))]

\* the loop stops on cur_node: it is no node (line 613), has no type (line 616) or is a
\* File node (line 619, which ends in the break of line 652)
WalkStops(G, cur_node) == ~has_node(G.nodes, cur_node) \/ NodeType(G.nodes, cur_node) \in {"", NODE_TYPE_FILE}

\* the (pre_node, cur_node) pairs of the iterations of the loop of lines 609-655
RECURSIVE ScopeWalk(_, _, _)
ScopeWalk(G, cur_node, pre_node) == IF WalkStops(G, cur_node) THEN <<[pre |-> pre_node, cur |-> cur_node]>> ELSE <<[pre |-> pre_node, cur |-> cur_node]>> \o ScopeWalk(G, find_parent(G, cur_node), cur_node)

\* find_all_possible_callee(node, graph): the members of every scope of the walk (line
\* 610), then what the File node it ends on gives
find_all_possible_callee(G, node) == LET walk == ScopeWalk(G, node, node) last == walk[Len(walk)].cur at_file == IF NodeType(G.nodes, last) = NODE_TYPE_FILE THEN AtFile(G, last) ELSE [callee_nodes |-> << >>, callee_alias |-> << >>] IN [callee_nodes |-> Flatten([i \in 1..Len(walk) |-> get_inner_nodes(G, walk[i].pre, walk[i].cur)]) \o at_file.callee_nodes, callee_alias |-> at_file.callee_alias]

(***************************************************************************)
(* Third pass: the name table (lines 493-515).                             *)
(***************************************************************************)

\* the targets of the alias entries named callee_name
AliasTargets(al, callee_name) == LET hit == SelectSeq(al, LAMBDA x : x.alias = callee_name) IN [i \in 1..Len(hit) |-> hit[i].node]

\* fuzzy mode, callee_name_dict.get(callee_name): every candidate of set(callee_nodes)
\* once under its short name and once under its qualified name, then the aliases
FuzzyLookup(cands, al, callee_name) == LET set_nodes == Dedup(cands) IN Flatten([i \in 1..Len(set_nodes) |-> (IF ShortName(set_nodes[i]) = callee_name THEN <<set_nodes[i]>> ELSE << >>) \o (IF FullName(set_nodes[i]) = callee_name THEN <<set_nodes[i]>> ELSE << >>)]) \o AliasTargets(al, callee_name)

\* the first candidate whose name under Key is callee_name: the entry that survives the
\* dictionary built from callee_nodes[::-1]
FirstNamed(cands, callee_name, full) == cands[CHOOSE i \in 1..Len(cands) : (IF full THEN FullName(cands[i]) ELSE ShortName(cands[i])) = callee_name /\ \A j \in 1..(i - 1) : (IF full THEN FullName(cands[j]) ELSE ShortName(cands[j])) # callee_name]

\* a variant of PreciseLookup: the aliases are entered first and the names overwrite them
PreciseLookupAliasFirst(cands, al, callee_name) == IF \E i \in 1..Len(cands) : FullName(cands[i]) = callee_name THEN <<FirstNamed(cands, callee_name, TRUE)>> ELSE IF \E i \in 1..Len(cands) : ShortName(cands[i]) = callee_name THEN <<FirstNamed(cands, callee_name, FALSE)>> ELSE AliasTargets(al, callee_name)

\* precise mode, callee_name_dict.get(callee_name): the short-name dictionary, updated
\* with the qualified names, updated with the aliases
PreciseLookup(cands, al, callee_name) == IF AliasTargets(al, callee_name) # << >> THEN AliasTargets(al, callee_name) ELSE IF \E i \in 1..Len(cands) : FullName(cands[i]) = callee_name THEN <<FirstNamed(cands, callee_name, TRUE)>> ELSE IF \E i \in 1..Len(cands) : ShortName(cands[i]) = callee_name THEN <<FirstNamed(cands, callee_name, FALSE)>> ELSE << >>

\* the targets the table of a node gives for a name, as the list of edges to add
Lookup(fuzzy, scope, callee_name) == IF fuzzy THEN FuzzyLookup(scope.callee_nodes, scope.callee_alias, callee_name) ELSE PreciseLookup(scope.callee_nodes, scope.callee_alias, callee_name)

(***************************************************************************)
(* Third pass: the names a node's own code holds (analyze_init,            *)
(* analyze_invokes, analyze_java_init, analyze_java_invokes).              *)
(***************************************************************************)

\* the file of a node key is a source file of the repository
HasSourceFile(r, node) == NodeFile(node) \in DiskFiles(r) /\ IsSupported(NodeFile(node))

\* the entities of the node's file
EntitiesOf(r, node) == FileAt(r, NodeFile(node)).entities

\* the entity whose source the node carries: the last one added under the key
EntityOf(r, node) == LET ents == EntitiesOf(r, node) same == SelectSeq(ents, LAMBDA e : e.name = FullName(node)) IN same[Len(same)]

\* the type declarations of javalang's tree.types: the types of the compilation unit
\* that no other entity of the file encloses
TopTypes(ents) == SelectSeq(ents, LAMBDA e : e.type \in {NODE_TYPE_CLASS, NODE_TYPE_INTERFACE, NODE_TYPE_ENUM} /\ (LastAt(e.name, ".") = 0 \/ ~\E i \in 1..Len(ents) : ents[i].name = DropLast(e.name, ".")))

\* the members of the type declarations ts that are named member_name, in order
MembersNamed(ents, ts, member_name) == Flatten([i \in 1..Len(ts) |-> SelectSeq(ents, LAMBDA e : LastAt(e.name, ".") # 0 /\ DropLast(e.name, ".") = ts[i].name /\ SplitLast(e.name, ".") = member_name)])

\* node.split(':')[-1].split('.')[-2], None for a name without a dot
ClassPart(name) == IF LastAt(name, ".") = 0 THEN None ELSE SplitLast(DropLast(name, "."), ".")

\* analyze_java_invokes: the calls of the first member named like the node in the
\* top-level types named like its class
analyze_java_invokes(r, node) == LET ents == EntitiesOf(r, node) class_name == ClassPart(FullName(node)) ts == SelectSeq(TopTypes(ents), LAMBDA t : class_name = None \/ SplitLast(t.name, ".") = class_name) ms == MembersNamed(ents, ts, ShortName(node)) IN IF ms = << >> THEN << >> ELSE ms[1].calls

\* analyze_java_init, invocations: the calls of the first member of any top-level type
\* that is named like the node (its constructor)
JavaInitInvocations(r, node) == LET ents == EntitiesOf(r, node) ms == MembersNamed(ents, TopTypes(ents), ShortName(node)) IN IF ms = << >> THEN << >> ELSE ms[1].calls

\* analyze_java_init, inheritances: extends and implements of every top-level type
JavaInitInheritances(r, node) == LET ts == TopTypes(EntitiesOf(r, node)) IN Flatten([i \in 1..Len(ts) |-> ts[i].bases])

\* the invocation names extracted for a definition node (lines 518-549)
Invocations(r, ns, node) == IF ~HasSourceFile(r, node) THEN << >> ELSE IF EndsWith(NodeFile(node), JAVA) THEN (IF NodeType(ns, node) \in {NODE_TYPE_CLASS, NODE_TYPE_INTERFACE, NODE_TYPE_ENUM} THEN JavaInitInvocations(r, node) ELSE analyze_java_invokes(r, node)) ELSE EntityOf(r, node).calls

\* the inheritance names extracted for a definition node (lines 518-549)
Inheritances(r, ns, node) == IF ~HasSourceFile(r, node) \/ NodeType(ns, node) \notin {NODE_TYPE_CLASS, NODE_TYPE_INTERFACE, NODE_TYPE_ENUM} THEN << >> ELSE IF EndsWith(NodeFile(node), JAVA) THEN JavaInitInheritances(r, node) ELSE EntityOf(r, node).bases

\* the import statements analyze_init / analyze_invokes hand to add_imports for the node
LocalImports(r, node) == IF HasSourceFile(r, node) /\ EndsWith(NodeFile(node), PY) THEN EntityOf(r, node).imports ELSE << >>

(***************************************************************************)
(* Third pass: the edges (lines 553-583).                                  *)
(***************************************************************************)

\* graph.add_edge(node, callee, type=t) for each target, in order (every target is a
\* node of the graph: a candidate of the walk or a key of the global index)
AddEdgesTo(G, node, targets, t) == [nodes |-> G.nodes, edges |-> G.edges \o [i \in 1..Len(targets) |-> Edge(node, targets[i], t, None)]]

\* a variant of ResolveName: a name without an entry is linked to what the table
\* returned for it (None)
ResolveNameUnguarded(fuzzy, glob, index, scope, callee_name) == LET callee_node == Lookup(fuzzy, scope, callee_name) IN IF callee_node # << >> THEN callee_node ELSE IF glob THEN GlobalGet(index, callee_name) ELSE <<None>>

\* a variant of ResolveName: the global index is asked before the table of the node
ResolveNameFallbackFirst(fuzzy, glob, index, scope, callee_name) == IF glob /\ GlobalGet(index, callee_name) # << >> THEN GlobalGet(index, callee_name) ELSE Lookup(fuzzy, scope, callee_name)

\* a variant of ResolveName: without the global fallback
ResolveNameNoFallback(fuzzy, glob, index, scope, callee_name) == Lookup(fuzzy, scope, callee_name)

\* lines 555-567 / 571-583: the nodes one extracted name is linked to: what the table of
\* the node gives, else with global_import what the global index gives
ResolveName(fuzzy, glob, index, scope, callee_name) == LET callee_node == Lookup(fuzzy, scope, callee_name) IN IF callee_node # << >> THEN callee_node ELSE IF glob THEN GlobalGet(index, callee_name) ELSE << >>

\* the loop over set(invocations) or set(inheritances): the edges of every name
LinkNames(G, node, fuzzy, glob, index, scope, names, t) == AddEdgesTo(G, node, Flatten([i \in 1..Len(names) |-> ResolveName(fuzzy, glob, index, scope, names[i])]), t)

\* a variant of ResolveOne: the import statements of the node's body are added as
\* imports of its file
ResolveOneImportsAtFile(r, G, node, fuzzy, glob, index) == LET scope == find_all_possible_callee(G, node) imported == add_imports(r, G, NodeFile(node), LocalImports(r, node)) invoked == LinkNames(imported, node, fuzzy, glob, index, scope, Dedup(Invocations(r, G.nodes, node)), EDGE_TYPE_INVOKES) IN LinkNames(invoked, node, fuzzy, glob, index, scope, Dedup(Inheritances(r, G.nodes, node)), EDGE_TYPE_INHERITS)

\* the body of the loop of the third pass for one definition node (lines 474-583): the
\* table is built first, the node's own import statements are added by the analysis, then
\* the Invokes and the Inherits edges. (set(...) iterates in an order of its own; the
\* names are taken in the order of their first extraction, which decides only the order
\* of the edges added.)
ResolveOne(r, G, node, fuzzy, glob, index) == LET scope == find_all_possible_callee(G, node) imported == add_imports(r, G, node, LocalImports(r, node)) invoked == LinkNames(imported, node, fuzzy, glob, index, scope, Dedup(Invocations(r, G.nodes, node)), EDGE_TYPE_INVOKES) IN LinkNames(invoked, node, fuzzy, glob, index, scope, Dedup(Inheritances(r, G.nodes, node)), EDGE_TYPE_INHERITS)

\* one iteration of `for node, attributes in graph.nodes(data=True)` (lines 468-583)
ResolveNode ==
    /\ pc = "resolve"
    /\ res_idx <= Len(graph.nodes)
    /\ graph' = IF graph.nodes[res_idx].type \in DEFINITION_TYPES THEN ResolveOne(repo, graph, graph.nodes[res_idx].key, fuzzy_search, global_import, global_name_dict) ELSE graph
    /\ res_idx' = res_idx + 1
    /\ UNCHANGED <<repo, fuzzy_search, global_import, pc, file_nodes, dir_stack, dir_include_stack, todo, dirname, files_todo, dir_has_code, imp_idx, global_name_dict, run, first, java_unit, java_nodes>>

\* line 585: return graph
Return ==
    /\ pc = "resolve"
    /\ res_idx > Len(graph.nodes)
    /\ pc' = "done"
    /\ UNCHANGED <<repo, fuzzy_search, global_import, graph, file_nodes, dir_stack, dir_include_stack, todo, dirname, files_todo, dir_has_code, imp_idx, global_name_dict, res_idx, run, first, java_unit, java_nodes>>

\* what a returned graph is compared by: its nodes with their type, and how many edges
\* of each type it holds between each pair of nodes
EdgeKinds(es) == {[src |-> es[i].src, dst |-> es[i].dst, type |-> es[i].type] : i \in 1..Len(es)}

GraphSummary(G) == [nodes |-> Range(G.nodes), edges |-> {<<k, Cardinality({i \in 1..Len(G.edges) : G.edges[i].src = k.src /\ G.edges[i].dst = k.dst /\ G.edges[i].type = k.type})>> : k \in EdgeKinds(G.edges)}]

\* a second call of build_graph on the same repository with the same flags: the summary
\* of the graph the first call returned is kept in first, and the walk starts again
\* (lines 363-369)
BuildAgain ==
    /\ pc = "done"
    /\ run = 1
    /\ first' = GraphSummary(graph)
    /\ run' = 2
    /\ graph' = [nodes |-> <<[key |-> ROOT, type |-> NODE_TYPE_DIRECTORY]>>, edges |-> << >>]
    /\ file_nodes' = << >>
    /\ dir_stack' = << >>
    /\ dir_include_stack' = << >>
    /\ todo' = <<ROOT>>
    /\ dirname' = ROOT
    /\ files_todo' = << >>
    /\ dir_has_code' = FALSE
    /\ imp_idx' = 1
    /\ global_name_dict' = << >>
    /\ res_idx' = 1
    /\ pc' = "walk"
    /\ UNCHANGED <<repo, fuzzy_search, global_import, java_unit, java_nodes>>

(***************************************************************************)
(* The repositories the model is run on.                                   *)
(***************************************************************************)

Ent(name, type, calls, bases, imports) == [name |-> name, type |-> type, calls |-> calls, bases |-> bases, imports |-> imports]

SrcFile(dir, name, status, entities, imports) == [dir |-> dir, name |-> name, status |-> status, entities |-> entities, imports |-> imports]

\* {'type': 'import', 'module': m, 'alias': a}
Plain(module, alias) == [type |-> "import", module |-> module, alias |-> alias]

\* {'type': 'from', 'module': m, 'entities': [{'name': n, 'alias': a}]}
From(module, name, alias) == [type |-> "from", module |-> module, entities |-> <<[name |-> name, alias |-> alias]>>]

\* the strings of the repositories below
s_A == <<"A">>
s_B == <<"B">>
s_Base == <<"B", "a", "s", "e">>
s_Base_dot_java == <<"B", "a", "s", "e", ".", "j", "a", "v", "a">>
s_C == <<"C">>
s_C_dot_f == <<"C", ".", "f">>
s_C_dot_m == <<"C", ".", "m">>
s_Calc_dot_java == <<"C", "a", "l", "c", ".", "j", "a", "v", "a">>
s_Foo == <<"F", "o", "o">>
s_K == <<"K">>
s_List == <<"L", "i", "s", "t">>
s_Op == <<"O", "p">>
s_Other == <<"O", "t", "h", "e", "r">>
s_T == <<"T">>
s_T_dot_K == <<"T", ".", "K">>
s_W == <<"W">>
s_X == <<"X">>
s__dot_git == <<".", "g", "i", "t">>
s__u__u_init_u__u__dot_py == <<"_", "_", "i", "n", "i", "t", "_", "_", ".", "p", "y">>
s_a == <<"a">>
s_ab == <<"a", "b">>
s_a_sl_b == <<"a", "/", "b">>
s_m_dot_py == <<"m", ".", "p", "y">>
s_a_dot_py == <<"a", ".", "p", "y">>
s_add == <<"a", "d", "d">>
s_b == <<"b">>
s_b_dot_py == <<"b", ".", "p", "y">>
s_bad_dot_py == <<"b", "a", "d", ".", "p", "y">>
s_c_dot_py == <<"c", ".", "p", "y">>
s_core_dot_py == <<"c", "o", "r", "e", ".", "p", "y">>
s_d_dot_py == <<"d", ".", "p", "y">>
s_f == <<"f">>
s_g == <<"g">>
s_go == <<"g", "o">>
s_h == <<"h">>
s_hook_dot_py == <<"h", "o", "o", "k", ".", "p", "y">>
s_java_dot_io == <<"j", "a", "v", "a", ".", "i", "o">>
s_java_dot_util == <<"j", "a", "v", "a", ".", "u", "t", "i", "l">>
s_json == <<"j", "s", "o", "n">>
s_lib == <<"l", "i", "b">>
s_lib_dot_core == <<"l", "i", "b", ".", "c", "o", "r", "e">>
s_notes_dot_txt == <<"n", "o", "t", "e", "s", ".", "t", "x", "t">>
s_os == <<"o", "s">>
s_p == <<"p">>
s_pkg == <<"p", "k", "g">>
s_pkg_dot_Base == <<"p", "k", "g", ".", "B", "a", "s", "e">>
s_pkg_dot_Calc == <<"p", "k", "g", ".", "C", "a", "l", "c">>
s_pkg_dot_Calc_dot_Calc == <<"p", "k", "g", ".", "C", "a", "l", "c", ".", "C", "a", "l", "c">>
s_pkg_dot_Calc_dot_add == <<"p", "k", "g", ".", "C", "a", "l", "c", ".", "a", "d", "d">>
s_pkg_dot_Calc_dot_perform == <<"p", "k", "g", ".", "C", "a", "l", "c", ".", "p", "e", "r", "f", "o", "r", "m">>
s_pkg_dot_Calc_dot_reset == <<"p", "k", "g", ".", "C", "a", "l", "c", ".", "r", "e", "s", "e", "t">>
s_pkg_dot_Helper == <<"p", "k", "g", ".", "H", "e", "l", "p", "e", "r">>
s_q == <<"q">>
s_reset == <<"r", "e", "s", "e", "t">>
s_run == <<"r", "u", "n">>
s_s_dot_py == <<"s", ".", "p", "y">>
s_t == <<"t">>
s_t_dot_py == <<"t", ".", "p", "y">>
s_u == <<"u">>
s_use_dot_py == <<"u", "s", "e", ".", "p", "y">>
s_v == <<"v">>
s_x_dot_py == <<"x", ".", "p", "y">>
s_main_dot_py == <<"m", "a", "i", "n", ".", "p", "y">>
s_ghost == <<"g", "h", "o", "s", "t">>
s_ghost_dot_py == <<"g", "h", "o", "s", "t", ".", "p", "y">>
s_helper == <<"h", "e", "l", "p", "e", "r">>
s_helper_dot_py == <<"h", "e", "l", "p", "e", "r", ".", "p", "y">>
s_real == <<"r", "e", "a", "l">>
s_missing == <<"m", "i", "s", "s", "i", "n", "g">>
s_sub == <<"s", "u", "b">>
s_mod == <<"m", "o", "d">>
s_mod_dot_py == <<"m", "o", "d", ".", "p", "y">>
s_G == <<"G">>
s_H == <<"H">>
s_r == <<"r">>
s_w == <<"w">>
s_n_dot_py == <<"n", ".", "p", "y">>
s_tool == <<"t", "o", "o", "l">>
s_util_dot_py == <<"u", "t", "i", "l", ".", "p", "y">>
s_conf_dot_py == <<"c", "o", "n", "f", ".", "p", "y">>
s_tool_dot_util == <<"t", "o", "o", "l", ".", "u", "t", "i", "l">>
s_tool_dot_conf == <<"t", "o", "o", "l", ".", "c", "o", "n", "f">>
s_make == <<"m", "a", "k", "e">>
s_cfg == <<"c", "f", "g">>
s_c == <<"c">>
s_k == <<"k">>
s_j == <<"j">>
s_i == <<"i">>
s_r_dot_py == <<"r", ".", "p", "y">>
s_s == <<"s">>
\* a.py: from b import B; import os; class A(B); def f(): g(); def g()
\* b.py: import os; class B; class Foo       c.py: class Foo       d.py: def h(): Foo()
RepoScenario == [dirs |-> {}, files |-> {
    SrcFile(ROOT, s_a_dot_py, "regular", <<Ent(s_A, NODE_TYPE_CLASS, << >>, <<s_B>>, << >>), Ent(s_f, NODE_TYPE_FUNCTION, <<s_g>>, << >>, << >>), Ent(s_g, NODE_TYPE_FUNCTION, << >>, << >>, << >>)>>, <<From(s_b, s_B, None), Plain(s_os, None)>>),
    SrcFile(ROOT, s_b_dot_py, "regular", <<Ent(s_B, NODE_TYPE_CLASS, << >>, << >>, << >>), Ent(s_Foo, NODE_TYPE_CLASS, << >>, << >>, << >>)>>, <<Plain(s_os, None)>>),
    SrcFile(ROOT, s_c_dot_py, "regular", <<Ent(s_Foo, NODE_TYPE_CLASS, << >>, << >>, << >>)>>, << >>),
    SrcFile(ROOT, s_d_dot_py, "regular", <<Ent(s_h, NODE_TYPE_FUNCTION, <<s_Foo>>, << >>, << >>)>>, << >>)}]

\* s.py: from t import T as K; from t import T as q
\*       def f(); class C: def m(self): f(); K()   def f(self)
\*       def K(); def u(): K(); def p(): q(); def q()
\* t.py: class T: def K(self)
\* x.py: from t import T; class X(T); class T; def v(): import json; from t import T as W; W()
RepoShadow == [dirs |-> {}, files |-> {
    SrcFile(ROOT, s_s_dot_py, "regular", <<Ent(s_f, NODE_TYPE_FUNCTION, << >>, << >>, << >>), Ent(s_C, NODE_TYPE_CLASS, << >>, << >>, << >>), Ent(s_C_dot_m, NODE_TYPE_FUNCTION, <<s_f, s_K>>, << >>, << >>), Ent(s_C_dot_f, NODE_TYPE_FUNCTION, << >>, << >>, << >>), Ent(s_K, NODE_TYPE_FUNCTION, << >>, << >>, << >>), Ent(s_u, NODE_TYPE_FUNCTION, <<s_K>>, << >>, << >>), Ent(s_p, NODE_TYPE_FUNCTION, <<s_q>>, << >>, << >>), Ent(s_q, NODE_TYPE_FUNCTION, << >>, << >>, << >>)>>, <<From(s_t, s_T, s_K), From(s_t, s_T, s_q)>>),
    SrcFile(ROOT, s_t_dot_py, "regular", <<Ent(s_T, NODE_TYPE_CLASS, << >>, << >>, << >>), Ent(s_T_dot_K, NODE_TYPE_FUNCTION, << >>, << >>, << >>)>>, << >>),
    SrcFile(ROOT, s_x_dot_py, "regular", <<Ent(s_X, NODE_TYPE_CLASS, << >>, <<s_T>>, << >>), Ent(s_T, NODE_TYPE_CLASS, << >>, << >>, << >>), Ent(s_v, NODE_TYPE_FUNCTION, <<s_W>>, << >>, <<Plain(s_json, None), From(s_t, s_T, s_W)>>)>>, <<From(s_t, s_T, None)>>)}]

\* pkg/Calc.java: package pkg; import java.util.List; import java.io.*;
\*     class Calc extends Base implements Op { Calc() { reset(); } int add(int) ; int add(long) ;
\*       int perform() { add(); } void reset() }   class Helper extends Other
\* pkg/Base.java: package pkg; class Base       bad.py: does not parse       .git/hook.py
\* notes.txt
RepoJava == [dirs |-> {s_pkg, s__dot_git}, files |-> {
    SrcFile(s_pkg, s_Calc_dot_java, "regular", <<Ent(s_pkg_dot_Calc, NODE_TYPE_CLASS, << >>, <<s_Base, s_Op>>, << >>), Ent(s_pkg_dot_Calc_dot_Calc, NODE_TYPE_FUNCTION, <<s_reset>>, << >>, << >>), Ent(s_pkg_dot_Calc_dot_add, NODE_TYPE_FUNCTION, << >>, << >>, << >>), Ent(s_pkg_dot_Calc_dot_add, NODE_TYPE_FUNCTION, << >>, << >>, << >>), Ent(s_pkg_dot_Calc_dot_perform, NODE_TYPE_FUNCTION, <<s_add>>, << >>, << >>), Ent(s_pkg_dot_Calc_dot_reset, NODE_TYPE_FUNCTION, << >>, << >>, << >>), Ent(s_pkg_dot_Helper, NODE_TYPE_CLASS, << >>, <<s_Other>>, << >>)>>, <<From(s_java_dot_util, s_List, None), Plain(s_java_dot_io, None)>>),
    SrcFile(s_pkg, s_Base_dot_java, "regular", <<Ent(s_pkg_dot_Base, NODE_TYPE_CLASS, << >>, << >>, << >>)>>, << >>),
    SrcFile(ROOT, s_bad_dot_py, "unparsable", << >>, << >>),
    SrcFile(ROOT, s_notes_dot_txt, "regular", << >>, << >>),
    SrcFile(s__dot_git, s_hook_dot_py, "regular", <<Ent(s_f, NODE_TYPE_FUNCTION, << >>, << >>, << >>)>>, << >>)}]

\* lib/__init__.py: from lib.core import run
\* lib/core.py: import os; def run()             lib/use.py: import lib; def go(): run()
RepoLib == [dirs |-> {s_lib}, files |-> {
    SrcFile(s_lib, s__u__u_init_u__u__dot_py, "regular", << >>, <<From(s_lib_dot_core, s_run, None)>>),
    SrcFile(s_lib, s_core_dot_py, "regular", <<Ent(s_run, NODE_TYPE_FUNCTION, << >>, << >>, << >>)>>, <<Plain(s_os, None)>>),
    SrcFile(s_lib, s_use_dot_py, "regular", <<Ent(s_go, NODE_TYPE_FUNCTION, <<s_run>>, << >>, << >>)>>, <<Plain(s_lib, None)>>)}]

\* main.py: import ghost; from ghost import G as H; from helper import real as r
\*          from helper import missing; from sub import mod; def w(): r()
\* ghost.py: a symbolic link       helper.py: def real()       sub/mod.py: def f()
RepoSkip == [dirs |-> {s_sub}, files |-> {
    SrcFile(ROOT, s_main_dot_py, "regular", <<Ent(s_w, NODE_TYPE_FUNCTION, <<s_r>>, << >>, << >>)>>, <<Plain(s_ghost, None), From(s_ghost, s_G, s_H), From(s_helper, s_real, s_r), From(s_helper, s_missing, None), From(s_sub, s_mod, None)>>),
    SrcFile(ROOT, s_ghost_dot_py, "symlink", << >>, << >>),
    SrcFile(ROOT, s_helper_dot_py, "regular", <<Ent(s_real, NODE_TYPE_FUNCTION, << >>, << >>, << >>)>>, << >>),
    SrcFile(s_sub, s_mod_dot_py, "regular", <<Ent(s_f, NODE_TYPE_FUNCTION, << >>, << >>, << >>)>>, << >>)}]

\* n.py: from tool.conf import cfg as c
\*       def k(): from tool.util import make; make()      def j(): make(); tool()
\*       def i(): c()
\* tool/util.py: def make()       tool/conf.py: cfg = 1 (no definition)
RepoNest == [dirs |-> {s_tool}, files |-> {
    SrcFile(ROOT, s_n_dot_py, "regular", <<Ent(s_k, NODE_TYPE_FUNCTION, <<s_make>>, << >>, <<From(s_tool_dot_util, s_make, None)>>), Ent(s_j, NODE_TYPE_FUNCTION, <<s_make, s_tool>>, << >>, << >>), Ent(s_i, NODE_TYPE_FUNCTION, <<s_c>>, << >>, << >>)>>, <<From(s_tool_dot_conf, s_cfg, s_c)>>),
    SrcFile(s_tool, s_util_dot_py, "regular", <<Ent(s_make, NODE_TYPE_FUNCTION, << >>, << >>, << >>)>>, << >>),
    SrcFile(s_tool, s_conf_dot_py, "regular", << >>, << >>)}]

\* p/__init__.py: import q; def s(): t()       q/__init__.py: import p; def t()
\* r.py: import p; def u(): t(); s()
RepoCycle == [dirs |-> {s_p, s_q}, files |-> {
    SrcFile(s_p, s__u__u_init_u__u__dot_py, "regular", <<Ent(s_s, NODE_TYPE_FUNCTION, <<s_t>>, << >>, << >>)>>, <<Plain(s_q, None)>>),
    SrcFile(s_q, s__u__u_init_u__u__dot_py, "regular", <<Ent(s_t, NODE_TYPE_FUNCTION, << >>, << >>, << >>)>>, <<Plain(s_p, None)>>),
    SrcFile(ROOT, s_r_dot_py, "regular", <<Ent(s_u, NODE_TYPE_FUNCTION, <<s_t, s_s>>, << >>, << >>)>>, <<Plain(s_p, None)>>)}]

Catalogue == {RepoScenario, RepoShadow, RepoJava, RepoLib, RepoSkip, RepoNest, RepoCycle}

\* the directory trees of the walk: at most MaxDirs of the directories a, ab and a/b,
\* each holding one file: notes.txt, or m.py as a regular file, a symbolic link, a file
\* that may not be opened, a file that is not UTF-8, or a file that does not parse
MaxDirs == 2

FileKinds == {"none", "regular", "symlink", "unreadable", "undecodable", "unparsable"}

TreeFile(d, kind) == IF kind = "none" THEN SrcFile(d, s_notes_dot_txt, "regular", << >>, << >>) ELSE SrcFile(d, s_m_dot_py, kind, IF kind = "regular" THEN <<Ent(s_f, NODE_TYPE_FUNCTION, << >>, << >>, << >>)>> ELSE << >>, << >>)

TreeDirs == {D \in SUBSET {s_a, s_ab, s_a_sl_b} : Cardinality(D) <= MaxDirs /\ (s_a_sl_b \in D => s_a \in D)}

Trees == UNION {{[dirs |-> D, files |-> {TreeFile(d, kind[d]) : d \in D}] : kind \in [D -> FileKinds]} : D \in TreeDirs}

Repos == Catalogue \cup Trees

(***************************************************************************)
(* The state machine.                                                      *)
(***************************************************************************)

\* lines 363-369: the empty graph with the root directory, the empty stacks
Init ==
    /\ repo \in Repos
    /\ fuzzy_search \in BOOLEAN
    /\ global_import \in BOOLEAN
    /\ pc = "walk"
    /\ graph = [nodes |-> <<[key |-> ROOT, type |-> NODE_TYPE_DIRECTORY]>>, edges |-> << >>]
    /\ file_nodes = << >>
    /\ dir_stack = << >>
    /\ dir_include_stack = << >>
    /\ todo = <<ROOT>>
    /\ dirname = ROOT
    /\ files_todo = << >>
    /\ dir_has_code = FALSE
    /\ imp_idx = 1
    /\ global_name_dict = << >>
    /\ res_idx = 1
    /\ run = 1
    /\ first = [nodes |-> {}, edges |-> {}]
    /\ java_unit = [package |-> << >>, decls |-> << >>]
    /\ java_nodes = << >>

Next == WalkDir \/ WalkFile \/ KeepParents \/ PruneLast \/ AddImportsOfFile \/ BuildGlobalIndex \/ ResolveNode \/ Return \/ BuildAgain

Spec == Init /\ [][Next]_vars

(***************************************************************************)
(* dependency_graph/java_parser.py: the tree-sitter visitor of             *)
(* JavaCodeAnalyzer.  A compilation unit is its package name and its       *)
(* declarations in source order; decls[i].parent is the index of the       *)
(* declaration whose body holds declaration i (0: the compilation unit).   *)
(***************************************************************************)

\* lines 118-127: the node types that have a handler
CLASS_DECLARATION == "class_declaration"
INTERFACE_DECLARATION == "interface_declaration"
ENUM_DECLARATION == "enum_declaration"
METHOD_DECLARATION == "method_declaration"
CONSTRUCTOR_DECLARATION == "constructor_declaration"

TypeDeclarations == {CLASS_DECLARATION, INTERFACE_DECLARATION, ENUM_DECLARATION}

\* the entity type a handler appends (lines 143, 174, 204, 239, 271)
EntityType(kind) == IF kind = CLASS_DECLARATION THEN NODE_TYPE_CLASS ELSE IF kind = INTERFACE_DECLARATION THEN NODE_TYPE_INTERFACE ELSE IF kind = ENUM_DECLARATION THEN NODE_TYPE_ENUM ELSE NODE_TYPE_FUNCTION

\* '.'.join(name_parts)
RECURSIVE DotJoin(_)
DotJoin(parts) == IF parts = << >> THEN << >> ELSE IF Len(parts) = 1 THEN parts[1] ELSE DotJoin(SubSeq(parts, 1, Len(parts) - 1)) \o <<".">> \o parts[Len(parts)]

\* lines 299-309
_build_full_name(package_name, node_name_stack, name) == DotJoin((IF package_name # << >> THEN <<package_name>> ELSE << >>) \o node_name_stack \o <<name>>)

\* lines 370-375: the name of the nearest enclosing class on the stack, or None
_get_class_name_from_context(node_name_stack, node_type_stack) == LET at == {i \in 1..Len(node_type_stack) : node_type_stack[i] = NODE_TYPE_CLASS} IN IF at = {} THEN None ELSE node_name_stack[CHOOSE i \in at : \A j \in at : j <= i]

\* the declarations that the subtree of node i holds directly, in source order
Kids(ds, i) == SelectSeq([j \in 1..Len(ds) |-> j], LAMBDA j : ds[j].parent = i)

\* lines 116-131 with the handlers of lines 133-290: the handler of a declaration
\* appends its entity and visits the children of its body with the name pushed
\* (a method that carries the name of the enclosing class returns at line 232),
\* and lines 130-131 then visit the children of the node itself
RECURSIVE _visit_node(_, _, _, _, _), visit_all(_, _, _, _, _)
_visit_node(ds, package_name, i, node_name_stack, node_type_stack) == (IF i = 0 THEN << >> ELSE IF ds[i].kind = METHOD_DECLARATION /\ ds[i].name = _get_class_name_from_context(node_name_stack, node_type_stack) THEN << >> ELSE <<[name |-> _build_full_name(package_name, node_name_stack, ds[i].name), type |-> EntityType(ds[i].kind)]>> \o visit_all(ds, package_name, Kids(ds, i), Append(node_name_stack, ds[i].name), Append(node_type_stack, EntityType(ds[i].kind)))) \o visit_all(ds, package_name, Kids(ds, i), node_name_stack, node_type_stack)

\* for child in ...: self._visit_node(child, source_code)
visit_all(ds, package_name, children, node_name_stack, node_type_stack) == IF children = << >> THEN << >> ELSE _visit_node(ds, package_name, children[1], node_name_stack, node_type_stack) \o visit_all(ds, package_name, Tail(children), node_name_stack, node_type_stack)

\* lines 75-86: the package name, then the visit of the root node with empty stacks
_parse_with_tree_sitter(unit) == _visit_node(unit.decls, unit.package, 0, << >>, << >>)

\* the compilation units parsed: at most MaxDecls declarations named A or B, with
\* or without the package pkg; types at the top level or in a type, methods in a
\* type, constructors in a class or an enum of their name
MaxDecls == 3

DeclKinds == TypeDeclarations \cup {METHOD_DECLARATION, CONSTRUCTOR_DECLARATION}

RECURSIVE Enclosing(_, _)
Enclosing(ds, i) == IF i = 0 THEN {0} ELSE {i} \cup Enclosing(ds, ds[i].parent)

WellFormed(ds) == \A i \in 1..Len(ds) :
    /\ ds[i].parent < i
    /\ ds[i].parent \in (IF i = 1 THEN {0} ELSE Enclosing(ds, i - 1))
    /\ ds[i].parent # 0 => ds[ds[i].parent].kind \in TypeDeclarations
    /\ ds[i].kind \notin TypeDeclarations => ds[i].parent # 0
    /\ ds[i].kind = CONSTRUCTOR_DECLARATION => ds[ds[i].parent].kind \in {CLASS_DECLARATION, ENUM_DECLARATION} /\ ds[i].name = ds[ds[i].parent].name

Decls == UNION {{ds \in [1..n -> [kind : DeclKinds, name : {s_A, s_B}, parent : 0..(MaxDecls - 1)]] : WellFormed(ds)} : n \in 0..MaxDecls}

JavaUnits == [package : {<< >>, s_pkg}, decls : Decls]

\* JavaCodeAnalyzer(filename) with tree-sitter available: lines 48-59
InitParser ==
    /\ java_unit \in JavaUnits
    /\ java_nodes = << >>
    /\ pc = "parse"
    /\ repo = RepoJava
    /\ fuzzy_search = TRUE
    /\ global_import = FALSE
    /\ graph = [nodes |-> <<[key |-> ROOT, type |-> NODE_TYPE_DIRECTORY]>>, edges |-> << >>]
    /\ file_nodes = << >>
    /\ dir_stack = << >>
    /\ dir_include_stack = << >>
    /\ todo = <<ROOT>>
    /\ dirname = ROOT
    /\ files_todo = << >>
    /\ dir_has_code = FALSE
    /\ imp_idx = 1
    /\ global_name_dict = << >>
    /\ res_idx = 1
    /\ run = 1
    /\ first = [nodes |-> {}, edges |-> {}]

\* lines 65-73: parse_file with use_tree_sitter
parse_file ==
    /\ pc = "parse"
    /\ java_nodes' = _parse_with_tree_sitter(java_unit)
    /\ pc' = "parsed"
    /\ UNCHANGED <<java_unit, repo, fuzzy_search, global_import, graph, file_nodes, dir_stack, dir_include_stack, todo, dirname, files_todo, dir_has_code, imp_idx, global_name_dict, res_idx, run, first>>

NextParser == parse_file

SpecParser == InitParser /\ [][NextParser]_vars


(***************************************************************************)
(* Properties of the returned graph.                                       *)
(***************************************************************************)

\* build_graph has returned
Done == pc = "done"

\* f'{filename}:{name}', the key of an entity node
EntityKey(filename, name) == filename \o <<":">> \o name

\* how many edges of type t the graph holds from u to v, and into v
CountEdges(u, v, t) == Cardinality({i \in 1..Len(graph.edges) : graph.edges[i].src = u /\ graph.edges[i].dst = v /\ graph.edges[i].type = t})

CountInto(v, t) == Cardinality({i \in 1..Len(graph.edges) : graph.edges[i].dst = v /\ graph.edges[i].type = t})

\* the nodes reachable from the nodes of S along Contains edges
ContainsChildren(S) == {graph.edges[i].dst : i \in {j \in 1..Len(graph.edges) : graph.edges[j].type = EDGE_TYPE_CONTAINS /\ graph.edges[j].src \in S}}

RECURSIVE ContainsClosure(_)
ContainsClosure(S) == LET N == S \cup ContainsChildren(S) IN IF N = S THEN S ELSE ContainsClosure(N)

HasFileBelow(d) == \E n \in ContainsClosure({d}) : NodeType(graph.nodes, n) = NODE_TYPE_FILE

\* the files with a File node whose source the analyzers read
ReadFiles == {fn \in Range(file_nodes) : FileAt(repo, fn).status = "regular"}

\* the top-level entities of a file that are of type t
TopLevel(fn, t) == {e \in Range(FileAt(repo, fn).entities) : e.type = t /\ LastAt(e.name, ".") = 0}

\* the aliases the scope walk of a node collects, and the node an alias is bound to
VisibleAliases(node) == {x.alias : x \in Range(find_all_possible_callee(graph, node).callee_alias)}

AliasTarget(node, alias) == (CHOOSE x \in Range(find_all_possible_callee(graph, node).callee_alias) : x.alias = alias).node

\* the candidates the scope walk of a node collects
Candidates(node) == Range(find_all_possible_callee(graph, node).callee_nodes)

\* the definition nodes of the graph
DefinitionNodes == {graph.nodes[i].key : i \in {j \in 1..Len(graph.nodes) : graph.nodes[j].type \in DEFINITION_TYPES}}

\* C1: in the returned graph every node other than the root and the 'external:' nodes
\* has exactly one incoming Contains edge
C1_ExactlyOneContainsParent == Done => \A i \in 1..Len(graph.nodes) : (graph.nodes[i].key # ROOT /\ ~StartsWith(graph.nodes[i].key, EXTERNAL)) => CountInto(graph.nodes[i].key, EDGE_TYPE_CONTAINS) = 1

\* C1: a returned graph with a Package placeholder that has no incoming Contains edge
\* and an entity named twice in its file that has two
C1_PlaceholderAndDuplicate == Done /\ (\E i \in 1..Len(graph.nodes) : graph.nodes[i].type = NODE_TYPE_PACKAGE /\ CountInto(graph.nodes[i].key, EDGE_TYPE_CONTAINS) = 0) /\ (\E i \in 1..Len(graph.nodes) : graph.nodes[i].type = NODE_TYPE_FUNCTION /\ CountInto(graph.nodes[i].key, EDGE_TYPE_CONTAINS) = 2)

\* C2: in the returned graph every Directory node below the root has a File node among
\* its transitive Contains descendants
C2_SurvivingDirectoryHoldsFile == Done => \A i \in 1..Len(graph.nodes) : (graph.nodes[i].type = NODE_TYPE_DIRECTORY /\ graph.nodes[i].key # ROOT) => HasFileBelow(graph.nodes[i].key)

\* C2: directory a holds only notes.txt and still is a Directory node of the returned
\* graph, with no File node below it
C2_EmptyDirectorySurvives == Done /\ (\E f \in FilesIn(repo, s_a) : f.name = s_notes_dot_txt) /\ SubDirs(repo, s_a) = {} /\ NodeType(graph.nodes, s_a) = NODE_TYPE_DIRECTORY /\ ~HasFileBelow(s_a)

\* C3: the second run over the same repository with the same flags returns the same
\* node set and the same multiset of typed edges as the first, whatever the order of
\* enumeration of the two runs
C3_SameGraphOnSecondRun == (Done /\ run = 2) => GraphSummary(graph) = first

\* C3: two runs over the same repository whose returned graphs do not hold the same nodes
C3_RunsDiffer == Done /\ run = 2 /\ GraphSummary(graph).nodes # first.nodes

\* the module names of the 'import m' statements at the top level of the files
PlainModules == UNION {{f.imports[i].module : i \in {j \in 1..Len(f.imports) : f.imports[j].type = "import"}} : f \in repo.files}

\* the import statement names m: 'import m', 'from m import *' or 'from p import n' with m = p.n
Mentions(imp, m) == IF imp.type = "import" THEN imp.module = m ELSE \E j \in 1..Len(imp.entities) : (imp.entities[j].name = <<"*">> /\ imp.module = m) \/ imp.module \o <<".">> \o imp.entities[j].name = m

MentionCount(imports, m) == Cardinality({i \in 1..Len(imports) : Mentions(imports[i], m)})

\* m resolves to no file of the repository and is imported at file level only, at most
\* once per file
ImportedOnceAtFileLevel(m) == resolve_module(repo, m) = None /\ \A f \in repo.files : MentionCount(f.imports, m) <= 1 /\ MentionCount(NestedImports(f), m) = 0

\* the files of the graph that import m
Importers(m) == {fn \in Range(file_nodes) : MentionCount(find_imports(FileAt(repo, fn)), m) = 1}

\* C4: a module name that resolves to no file and is imported once, at file level, by k
\* files of the graph (k >= 1) has exactly one node 'external:<name>' and exactly k
\* Imports edges into it, one from each importing file
C4_OneExternalNodePerName == Done => \A m \in PlainModules : (ImportedOnceAtFileLevel(m) /\ Importers(m) # {}) => (Cardinality({i \in 1..Len(graph.nodes) : graph.nodes[i].key = EXTERNAL \o m}) = 1 /\ CountInto(EXTERNAL \o m, EDGE_TYPE_IMPORTS) = Cardinality(Importers(m)) /\ \A fn \in Importers(m) : CountEdges(fn, EXTERNAL \o m, EDGE_TYPE_IMPORTS) = 1)

\* C4: a returned graph in which two files import the same unresolved module name
C4_TwoImporters == Done /\ \E m \in PlainModules : ImportedOnceAtFileLevel(m) /\ Cardinality(Importers(m)) = 2 /\ CountInto(EXTERNAL \o m, EDGE_TYPE_IMPORTS) = 2

\* the class nodes a file imports by name: 'from p import B' at its top level, where p
\* resolves to a file b of the repository, p.B is no module, and b:B is a Class node
ImportedClasses(fn) == UNION {{EntityKey(resolve_module(repo, imp.module), imp.entities[j].name) : j \in {k \in 1..Len(imp.entities) : resolve_module(repo, imp.module) # None /\ resolve_module(repo, imp.module \o <<".">> \o imp.entities[k].name) = None /\ NodeType(graph.nodes, EntityKey(resolve_module(repo, imp.module), imp.entities[k].name)) = NODE_TYPE_CLASS}} : imp \in {x \in Range(FileAt(repo, fn).imports) : x.type = "from"}}

\* the other nodes whose qualified name is the one of target
Namesakes(target) == {n \in NodeKeys(graph.nodes) : n # target /\ FullName(n) = FullName(target)}

\* C5 as stated: file a defines class A with base name B, file b defines class B, a
\* imports B from b: the returned graph holds an Inherits edge from a:A to b:B
C5_InheritsEdgeToImportedBase == Done => \A fn \in ReadFiles : \A A \in TopLevel(fn, NODE_TYPE_CLASS) : \A target \in ImportedClasses(fn) : (EndsWith(fn, PY) /\ FullName(target) \in Range(Inheritances(repo, graph.nodes, EntityKey(fn, A.name)))) => CountEdges(EntityKey(fn, A.name), target, EDGE_TYPE_INHERITS) >= 1

\* C5 amended: the Inherits edge from a:A to b:B is there in fuzzy mode; in precise mode
\* it is there when no import visible from A binds the alias B and no other node of the
\* graph has the qualified name B
C5_InheritsEdgeUnlessShadowed == Done => \A fn \in ReadFiles : \A A \in TopLevel(fn, NODE_TYPE_CLASS) : \A target \in ImportedClasses(fn) : (EndsWith(fn, PY) /\ FullName(target) \in Range(Inheritances(repo, graph.nodes, EntityKey(fn, A.name))) /\ (fuzzy_search \/ (FullName(target) \notin VisibleAliases(EntityKey(fn, A.name)) /\ Namesakes(target) = {}))) => CountEdges(EntityKey(fn, A.name), target, EDGE_TYPE_INHERITS) >= 1

\* C5: precise mode, a.py: from b import B; class A(B), b.py: class B, and the edge
\* a.py:A -Inherits-> b.py:B in the returned graph
C5_ScenarioEdge == Done /\ repo = RepoScenario /\ ~fuzzy_search /\ EntityKey(s_b_dot_py, s_B) \in ImportedClasses(s_a_dot_py) /\ s_B \in Range(Inheritances(repo, graph.nodes, EntityKey(s_a_dot_py, s_A))) /\ Namesakes(EntityKey(s_b_dot_py, s_B)) = {} /\ CountEdges(EntityKey(s_a_dot_py, s_A), EntityKey(s_b_dot_py, s_B), EDGE_TYPE_INHERITS) = 1

\* C6 as stated: a file defines top-level functions f and g and f calls g: the returned
\* graph holds an Invokes edge from the file's f to the file's g, in both modes
C6_LocalCallEdge == Done => \A fn \in ReadFiles : \A f \in TopLevel(fn, NODE_TYPE_FUNCTION), g \in TopLevel(fn, NODE_TYPE_FUNCTION) : (EndsWith(fn, PY) /\ f.name # g.name /\ g.name \in Range(Invocations(repo, graph.nodes, EntityKey(fn, f.name)))) => CountEdges(EntityKey(fn, f.name), EntityKey(fn, g.name), EDGE_TYPE_INVOKES) >= 1

\* C6 amended: the Invokes edge from f to g is there in fuzzy mode; in precise mode it is
\* there when no import visible from f binds the alias g
C6_LocalCallEdgeUnlessAliased == Done => \A fn \in ReadFiles : \A f \in TopLevel(fn, NODE_TYPE_FUNCTION), g \in TopLevel(fn, NODE_TYPE_FUNCTION) : (EndsWith(fn, PY) /\ f.name # g.name /\ g.name \in Range(Invocations(repo, graph.nodes, EntityKey(fn, f.name))) /\ (fuzzy_search \/ g.name \notin VisibleAliases(EntityKey(fn, f.name)))) => CountEdges(EntityKey(fn, f.name), EntityKey(fn, g.name), EDGE_TYPE_INVOKES) >= 1

\* C6: precise mode, a.py: def f(): g(); def g(), and the edge a.py:f -Invokes-> a.py:g
C6_ScenarioEdge == Done /\ repo = RepoScenario /\ ~fuzzy_search /\ s_g \in Range(Invocations(repo, graph.nodes, EntityKey(s_a_dot_py, s_f))) /\ CountEdges(EntityKey(s_a_dot_py, s_f), EntityKey(s_a_dot_py, s_g), EDGE_TYPE_INVOKES) = 1

\* the callers of the scenario of C7 and C8: a definition of a Python file that calls
\* name, in a file without import statements and without a definition of that name
CallsUnimported(fn, h, name) == EndsWith(fn, PY) /\ name \in Range(Invocations(repo, graph.nodes, EntityKey(fn, h.name))) /\ find_imports(FileAt(repo, fn)) = << >> /\ \A e \in Range(FileAt(repo, fn).entities) : SplitLast(e.name, ".") # name

\* the Class nodes named name that other files define at their top level
ClassesNamed(fn, name) == {n \in NodeKeys(graph.nodes) : NodeType(graph.nodes, n) = NODE_TYPE_CLASS /\ FullName(n) = name /\ NodeFile(n) # fn}

\* the number of Invokes edges from node into the nodes of S
InvokesInto(node, S) == Cardinality({i \in 1..Len(graph.edges) : graph.edges[i].src = node /\ graph.edges[i].type = EDGE_TYPE_INVOKES /\ graph.edges[i].dst \in S})

\* the class names two or more other files define
SharedClassNames(fn) == {FullName(n) : n \in {k \in NodeKeys(graph.nodes) : Cardinality(ClassesNamed(fn, FullName(k))) >= 2}}

\* C7 as stated: fuzzy mode, two files define class Foo, a definition of a third file
\* calls Foo() without importing either: the caller has one Invokes edge to each Foo
C7_FuzzyLinksEveryFoo == (Done /\ fuzzy_search) => \A fn \in ReadFiles : \A h \in Range(FileAt(repo, fn).entities) : \A name \in SharedClassNames(fn) : CallsUnimported(fn, h, name) => \A n \in ClassesNamed(fn, name) : CountEdges(EntityKey(fn, h.name), n, EDGE_TYPE_INVOKES) = 1

\* C7 amended: fuzzy mode, same scenario: with the global fallback enabled the caller has
\* one Invokes edge to each Foo, with it disabled it has none to any of them
C7_FuzzyLinksOnlyByFallback == (Done /\ fuzzy_search) => \A fn \in ReadFiles : \A h \in Range(FileAt(repo, fn).entities) : \A name \in SharedClassNames(fn) : CallsUnimported(fn, h, name) => \A n \in ClassesNamed(fn, name) : CountEdges(EntityKey(fn, h.name), n, EDGE_TYPE_INVOKES) = (IF global_import THEN 1 ELSE 0)

\* C7: fuzzy mode with the fallback, d.py: def h(): Foo(), b.py and c.py: class Foo, and
\* one Invokes edge from d.py:h to each Foo
C7_ScenarioByFallback == Done /\ repo = RepoScenario /\ fuzzy_search /\ global_import /\ (\E h \in Range(FileAt(repo, s_d_dot_py).entities) : h.name = s_h /\ CallsUnimported(s_d_dot_py, h, s_Foo)) /\ ClassesNamed(s_d_dot_py, s_Foo) = {EntityKey(s_b_dot_py, s_Foo), EntityKey(s_c_dot_py, s_Foo)} /\ \A n \in ClassesNamed(s_d_dot_py, s_Foo) : CountEdges(EntityKey(s_d_dot_py, s_h), n, EDGE_TYPE_INVOKES) = 1

\* C8 as stated: precise mode, same scenario: the caller has exactly one Invokes edge for
\* the name Foo, to one of the Foo nodes
C8_PreciseLinksOneFoo == (Done /\ ~fuzzy_search) => \A fn \in ReadFiles : \A h \in Range(FileAt(repo, fn).entities) : \A name \in SharedClassNames(fn) : CallsUnimported(fn, h, name) => InvokesInto(EntityKey(fn, h.name), ClassesNamed(fn, name)) = 1

\* C8 amended: precise mode, same scenario: the caller has no Invokes edge to a Foo with
\* the global fallback disabled, and one to every Foo with it enabled
C8_PreciseLinksOnlyByFallback == (Done /\ ~fuzzy_search) => \A fn \in ReadFiles : \A h \in Range(FileAt(repo, fn).entities) : \A name \in SharedClassNames(fn) : CallsUnimported(fn, h, name) => InvokesInto(EntityKey(fn, h.name), ClassesNamed(fn, name)) = (IF global_import THEN Cardinality(ClassesNamed(fn, name)) ELSE 0)

\* C8: precise mode without the fallback, d.py: def h(): Foo(), b.py and c.py: class Foo,
\* and no Invokes edge from d.py:h
C8_ScenarioWithoutFallback == Done /\ repo = RepoScenario /\ ~fuzzy_search /\ ~global_import /\ (\E h \in Range(FileAt(repo, s_d_dot_py).entities) : h.name = s_h /\ CallsUnimported(s_d_dot_py, h, s_Foo)) /\ Cardinality(ClassesNamed(s_d_dot_py, s_Foo)) = 2 /\ InvokesInto(EntityKey(s_d_dot_py, s_h), NodeKeys(graph.nodes)) = 0

\* C9: precise mode: for the node N the third pass stands on, the table maps the short
\* name of every candidate (that no alias takes) to the candidate with that short name
\* that the scope walk of N collected first
C9_NearestCandidateWins == (pc = "resolve" /\ ~fuzzy_search /\ res_idx <= Len(graph.nodes)) => (graph.nodes[res_idx].type \in DEFINITION_TYPES => LET scope == find_all_possible_callee(graph, graph.nodes[res_idx].key) IN \A k \in 1..Len(scope.callee_nodes) : AliasTargets(scope.callee_alias, ShortName(scope.callee_nodes[k])) = << >> => Lookup(FALSE, scope, ShortName(scope.callee_nodes[k])) = <<FirstNamed(scope.callee_nodes, ShortName(scope.callee_nodes[k]), FALSE)>>)

\* C9: precise mode, s.py: def f(); class C: def m(self): f(); def f(self): the returned
\* graph links C.m to the top-level f and not to C.f, the nearer candidate
C9_OuterDefinitionWins == Done /\ repo = RepoShadow /\ ~fuzzy_search /\ s_f \in Range(Invocations(repo, graph.nodes, EntityKey(s_s_dot_py, s_C_dot_m))) /\ EntityKey(s_s_dot_py, s_C_dot_f) \in Candidates(EntityKey(s_s_dot_py, s_C_dot_m)) /\ CountEdges(EntityKey(s_s_dot_py, s_C_dot_m), EntityKey(s_s_dot_py, s_f), EDGE_TYPE_INVOKES) = 1 /\ CountEdges(EntityKey(s_s_dot_py, s_C_dot_m), EntityKey(s_s_dot_py, s_C_dot_f), EDGE_TYPE_INVOKES) = 0

\* the candidates of node with short name name, other than the targets of its aliases
RivalsOf(node, name) == {n \in Candidates(node) : ShortName(n) = name /\ \A a \in VisibleAliases(node) : AliasTarget(node, a) # n}

\* C10 as stated: in both modes a called name that equals an alias visible from N gets an
\* Invokes edge to the alias's target, and no candidate with that short name gets one
C10_AliasOnly == Done => \A N \in DefinitionNodes : \A c \in Range(Invocations(repo, graph.nodes, N)) \cap VisibleAliases(N) : CountEdges(N, AliasTarget(N, c), EDGE_TYPE_INVOKES) >= 1 /\ \A n \in RivalsOf(N, c) : CountEdges(N, n, EDGE_TYPE_INVOKES) = 0

\* C10 amended: in both modes the called alias gets an Invokes edge to its target; in
\* precise mode no candidate with that short name gets one, in fuzzy mode each of them does
C10_AliasFirstInPreciseMode == Done => \A N \in DefinitionNodes : \A c \in Range(Invocations(repo, graph.nodes, N)) \cap VisibleAliases(N) : CountEdges(N, AliasTarget(N, c), EDGE_TYPE_INVOKES) >= 1 /\ \A n \in RivalsOf(N, c) : (CountEdges(N, n, EDGE_TYPE_INVOKES) >= 1) = fuzzy_search

\* C10: precise mode, s.py: from t import T as K; def K(); def u(): K(): the returned
\* graph links u to t.py:T and not to s.py:K
C10_AliasBeatsDefinition == Done /\ repo = RepoShadow /\ ~fuzzy_search /\ s_K \in Range(Invocations(repo, graph.nodes, EntityKey(s_s_dot_py, s_u))) \cap VisibleAliases(EntityKey(s_s_dot_py, s_u)) /\ AliasTarget(EntityKey(s_s_dot_py, s_u), s_K) = EntityKey(s_t_dot_py, s_T) /\ EntityKey(s_s_dot_py, s_K) \in RivalsOf(EntityKey(s_s_dot_py, s_u), s_K) /\ CountEdges(EntityKey(s_s_dot_py, s_u), EntityKey(s_t_dot_py, s_T), EDGE_TYPE_INVOKES) = 1 /\ CountEdges(EntityKey(s_s_dot_py, s_u), EntityKey(s_s_dot_py, s_K), EDGE_TYPE_INVOKES) = 0

\* the node the third pass stands on, when it is a definition node
AtDefinition == pc = "resolve" /\ res_idx <= Len(graph.nodes) /\ graph.nodes[res_idx].type \in DEFINITION_TYPES

\* the names extracted for node as invocations or as inheritances
NamesOf(node, t) == IF t = EDGE_TYPE_INVOKES THEN Invocations(repo, graph.nodes, node) ELSE Inheritances(repo, graph.nodes, node)

\* the number of edges out of node
CountFrom(node) == Cardinality({i \in 1..Len(graph.edges) : graph.edges[i].src = node})

\* C11: global fallback disabled: handling an extracted name that has no entry in the
\* table of N leaves the graph as it was
C11_MissAddsNothing == (AtDefinition /\ ~global_import) => LET N == graph.nodes[res_idx].key scope == find_all_possible_callee(graph, N) IN \A t \in {EDGE_TYPE_INVOKES, EDGE_TYPE_INHERITS} : \A name \in Range(NamesOf(N, t)) : Lookup(fuzzy_search, scope, name) = << >> => LinkNames(graph, N, fuzzy_search, global_import, global_name_dict, scope, <<name>>, t) = graph

\* C11: fallback disabled, d.py: def h(): Foo() with no Foo in reach: the returned graph
\* has no edge out of d.py:h
C11_ScenarioMiss == Done /\ repo = RepoScenario /\ ~global_import /\ fuzzy_search /\ s_Foo \in Range(NamesOf(EntityKey(s_d_dot_py, s_h), EDGE_TYPE_INVOKES)) /\ Lookup(TRUE, find_all_possible_callee(graph, EntityKey(s_d_dot_py, s_h)), s_Foo) = << >> /\ CountFrom(EntityKey(s_d_dot_py, s_h)) = 0

\* the nodes the claim links an extracted name of node to: what the table of the node
\* gives, and for a name without an entry every node of the graph with that short name
LinkedTo(scope, name) == LET local == Lookup(fuzzy_search, scope, name) IN IF local # << >> THEN local ELSE SelectSeq([i \in 1..Len(graph.nodes) |-> graph.nodes[i].key], LAMBDA k : ShortName(k) = name)

\* the targets of the edges of type t out of node that makes, each distinct name taken once
AllLinkedTo(node, t) == LET scope == find_all_possible_callee(graph, node) names == Dedup(NamesOf(node, t)) IN Flatten([i \in 1..Len(names) |-> LinkedTo(scope, names[i])])

\* the targets of the edges of type t out of node in the graph
TargetsOf(node, t) == LET out == SelectSeq(graph.edges, LAMBDA e : e.src = node /\ e.type = t) IN [i \in 1..Len(out) |-> out[i].dst]

\* two sequences hold the same elements the same number of times
SameBag(a, b) == Len(a) = Len(b) /\ \A x \in Range(a) \cup Range(b) : Cardinality({i \in 1..Len(a) : a[i] = x}) = Cardinality({i \in 1..Len(b) : b[i] = x})

\* C12: global fallback enabled: the Invokes and Inherits edges out of every definition
\* node N are those its table gives for the names that have an entry, and for every
\* other name one edge to each node of the graph whose short name is that name
C12_FallbackLinksEveryNamesake == (Done /\ global_import) => \A N \in DefinitionNodes : \A t \in {EDGE_TYPE_INVOKES, EDGE_TYPE_INHERITS} : SameBag(TargetsOf(N, t), AllLinkedTo(N, t))

\* C12: precise mode with the fallback: d.py:h, whose table has no Foo, is linked to both
\* Foo classes, and a.py:f, whose table has g, to a.py:g only
C12_ScenarioBoth == Done /\ repo = RepoScenario /\ global_import /\ ~fuzzy_search /\ Lookup(FALSE, find_all_possible_callee(graph, EntityKey(s_d_dot_py, s_h)), s_Foo) = << >> /\ CountEdges(EntityKey(s_d_dot_py, s_h), EntityKey(s_b_dot_py, s_Foo), EDGE_TYPE_INVOKES) = 1 /\ CountEdges(EntityKey(s_d_dot_py, s_h), EntityKey(s_c_dot_py, s_Foo), EDGE_TYPE_INVOKES) = 1 /\ CountFrom(EntityKey(s_d_dot_py, s_h)) = 2 /\ CountFrom(EntityKey(s_a_dot_py, s_f)) = 1 /\ CountEdges(EntityKey(s_a_dot_py, s_f), EntityKey(s_a_dot_py, s_g), EDGE_TYPE_INVOKES) = 1

\* the second pass stands on a file whose import records it found
AtImportingFile == pc = "imports" /\ imp_idx <= Len(file_nodes) /\ ~FindImportsRaises(FileAt(repo, file_nodes[imp_idx]))

\* the import records of the file the second pass stands on
RecordsHere == find_imports(FileAt(repo, file_nodes[imp_idx]))

\* the graph after the first k of those records were handled
AfterRecords(k) == add_imports(repo, graph, file_nodes[imp_idx], SubSeq(RecordsHere, 1, k))

\* the edges G2 holds beyond those of G1
NewEdges(G1, G2) == SubSeq(G2.edges, Len(G1.edges) + 1, Len(G2.edges))

\* the record is 'import m' or 'from m import *'
IsModuleImport(imp) == imp.type = "import" \/ (Len(imp.entities) = 1 /\ imp.entities[1].name = <<"*">>)

\* the target the resolution rule gives the name n of 'from m import n'
NamedTarget(ns, m, n) == IF resolve_module(repo, m \o <<".">> \o n) # None THEN resolve_module(repo, m \o <<".">> \o n) ELSE IF resolve_module(repo, m) # None THEN (IF has_node(ns, EntityKey(resolve_module(repo, m), n)) THEN EntityKey(resolve_module(repo, m), n) ELSE resolve_module(repo, m)) ELSE EXTERNAL \o m \o <<".">> \o n

\* what the record names resolves to files on disk only, none of which has a node
Targetless(ns, imp) == IF IsModuleImport(imp) THEN resolve_module(repo, imp.module) # None /\ ~has_node(ns, resolve_module(repo, imp.module)) ELSE \A j \in 1..Len(imp.entities) : ~StartsWith(NamedTarget(ns, imp.module, imp.entities[j].name), EXTERNAL) /\ ~has_node(ns, NamedTarget(ns, imp.module, imp.entities[j].name))

\* the Imports edges out of a node
ImportsFrom(node) == SelectSeq(graph.edges, LAMBDA e : e.src = node /\ e.type = EDGE_TYPE_IMPORTS)

\* C13 as stated: every import record handed to add_imports for a file F adds at least
\* one Imports edge out of F
C13_EveryRecordAddsAnEdge == AtImportingFile => \A k \in 1..Len(RecordsHere) : Len(AfterRecords(k).edges) > Len(AfterRecords(k - 1).edges)

\* C13 amended: a record adds at least one edge, each an Imports edge out of F, unless
\* all it names resolves to files on disk that have no node: such a record leaves the
\* graph as it was
C13_EveryRecordUnlessNoNode == AtImportingFile => \A k \in 1..Len(RecordsHere) : IF Targetless(AfterRecords(k - 1).nodes, RecordsHere[k]) THEN AfterRecords(k) = AfterRecords(k - 1) ELSE Len(AfterRecords(k).edges) > Len(AfterRecords(k - 1).edges) /\ \A e \in Range(NewEdges(AfterRecords(k - 1), AfterRecords(k))) : e.src = file_nodes[imp_idx] /\ e.type = EDGE_TYPE_IMPORTS

\* C13: main.py has five import records, two of them of ghost.py, a symbolic link with
\* no node: the returned graph holds three Imports edges out of main.py, none to ghost.py
C13_SymlinkImportDropped == Done /\ repo = RepoSkip /\ Len(find_imports(FileAt(repo, s_main_dot_py))) = 5 /\ resolve_module(repo, s_ghost) = s_ghost_dot_py /\ ~has_node(graph.nodes, s_ghost_dot_py) /\ Len(SelectSeq(ImportsFrom(s_main_dot_py), LAMBDA e : e.dst = s_ghost_dot_py)) = 0 /\ Len(ImportsFrom(s_main_dot_py)) = 3

\* the graph before and after the j-th name of the k-th record (a 'from' record) is handled
BeforeName(k, j) == AddNamedImports(repo, AfterRecords(k - 1), file_nodes[imp_idx], RecordsHere[k].module, SubSeq(RecordsHere[k].entities, 1, j - 1))

AfterName(k, j) == AddNamedImports(repo, AfterRecords(k - 1), file_nodes[imp_idx], RecordsHere[k].module, SubSeq(RecordsHere[k].entities, 1, j))

\* C14 as stated: every imported name of a 'from' record adds exactly one edge, to the
\* target of the rule, carrying the alias of the name
C14_OneTargetPerName == AtImportingFile => \A k \in 1..Len(RecordsHere) : ~IsModuleImport(RecordsHere[k]) => \A j \in 1..Len(RecordsHere[k].entities) : NewEdges(BeforeName(k, j), AfterName(k, j)) = <<Edge(file_nodes[imp_idx], NamedTarget(BeforeName(k, j).nodes, RecordsHere[k].module, RecordsHere[k].entities[j].name), EDGE_TYPE_IMPORTS, RecordsHere[k].entities[j].alias)>>

\* C14 amended: every imported name adds that one edge when the target of the rule is a
\* node of the graph or an external node, and nothing when it is a file without a node
C14_OneTargetWhenNode == AtImportingFile => \A k \in 1..Len(RecordsHere) : ~IsModuleImport(RecordsHere[k]) => \A j \in 1..Len(RecordsHere[k].entities) : LET target == NamedTarget(BeforeName(k, j).nodes, RecordsHere[k].module, RecordsHere[k].entities[j].name) IN IF StartsWith(target, EXTERNAL) \/ has_node(BeforeName(k, j).nodes, target) THEN NewEdges(BeforeName(k, j), AfterName(k, j)) = <<Edge(file_nodes[imp_idx], target, EDGE_TYPE_IMPORTS, RecordsHere[k].entities[j].alias)>> /\ (has_node(BeforeName(k, j).nodes, target) => AfterName(k, j).nodes = BeforeName(k, j).nodes) ELSE AfterName(k, j) = BeforeName(k, j)

\* C14: main.py: from helper import real as r; from helper import missing; from sub
\* import mod; from ghost import G as H: one edge each to helper.py:real (alias r), to
\* helper.py and to sub/mod.py, and none for G
C14_ScenarioTargets == Done /\ repo = RepoSkip /\ SelectSeq(ImportsFrom(s_main_dot_py), LAMBDA e : e.dst = EntityKey(s_helper_dot_py, s_real)) = <<Edge(s_main_dot_py, EntityKey(s_helper_dot_py, s_real), EDGE_TYPE_IMPORTS, s_r)>> /\ CountEdges(s_main_dot_py, s_helper_dot_py, EDGE_TYPE_IMPORTS) = 1 /\ CountEdges(s_main_dot_py, PathJoin(s_sub, s_mod_dot_py), EDGE_TYPE_IMPORTS) = 1 /\ \A e \in Range(ImportsFrom(s_main_dot_py)) : e.alias # s_H

\* C15: every node of the graph has a type that is one of the 8 node kinds, every edge a
\* type that is one of the 4 edge kinds, and both ends of every edge are nodes that were
\* added with a type: no edge ever created a node
C15_TypedNodesAndEdges == (\A i \in 1..Len(graph.nodes) : graph.nodes[i].type \in VALID_NODE_TYPES) /\ (\A i \in 1..Len(graph.edges) : graph.edges[i].type \in VALID_EDGE_TYPES /\ NodeType(graph.nodes, graph.edges[i].src) \in VALID_NODE_TYPES /\ NodeType(graph.nodes, graph.edges[i].dst) \in VALID_NODE_TYPES)

\* C15: a returned graph of the repository in which main.py imports ghost.py, a file
\* without a node: ghost.py is no node and no edge leads to it
C15_NoNodeForSkippedImport == Done /\ repo = RepoSkip /\ resolve_module(repo, s_ghost) = s_ghost_dot_py /\ ~has_node(graph.nodes, s_ghost_dot_py) /\ CountInto(s_ghost_dot_py, EDGE_TYPE_IMPORTS) = 0 /\ Len(ImportsFrom(s_main_dot_py)) = 3 /\ \A i \in 1..Len(graph.nodes) : graph.nodes[i].type \in VALID_NODE_TYPES

\* the supported files of the repository that the walk comes to
WalkedFiles == {f \in repo.files : IsSupported(f.name) /\ (f.dir = ROOT \/ ~is_skip_dir(f.dir))}

\* the nodes keyed under a file: the File node and the entity nodes
NodesOfFile(filename) == {n \in NodeKeys(graph.nodes) : NodeFile(n) = filename}

\* C16 as stated: the returned graph holds no node of a source file that does not parse
C16_NoNodeOfUnparsableFile == Done => \A f \in WalkedFiles : f.status = "unparsable" => NodesOfFile(Filename(f)) = {}

\* C16: bad.py does not parse and is a File node of the returned graph, with no Contains
\* edge into it and no entity node under it
C16_FileNodeOfUnparsableFile == Done /\ repo = RepoJava /\ FileAt(repo, s_bad_dot_py).status = "unparsable" /\ NodeType(graph.nodes, s_bad_dot_py) = NODE_TYPE_FILE /\ CountInto(s_bad_dot_py, EDGE_TYPE_CONTAINS) = 0 /\ NodesOfFile(s_bad_dot_py) = {s_bad_dot_py}

\* C17: the step of the walk over a supported file that is not UTF-8 adds no node and no
\* edge, lists no file, and goes on to the next file of the directory
C17_UndecodableFileSkipped == [][(pc = "files" /\ files_todo # << >> /\ IsSupported(Head(files_todo).name) /\ Head(files_todo).status = "undecodable") => (graph' = graph /\ file_nodes' = file_nodes /\ files_todo' = Tail(files_todo) /\ pc' = "files")]_vars

\* C17: a returned graph of a repository with an undecodable source file, which has no
\* node, and a regular one, which has its File node
C17_OtherFilesKept == Done /\ (\E f \in WalkedFiles : f.status = "undecodable" /\ NodesOfFile(Filename(f)) = {} /\ \A i \in 1..Len(graph.edges) : graph.edges[i].dst # Filename(f)) /\ (\E g \in WalkedFiles : g.status = "regular" /\ NodeType(graph.nodes, Filename(g)) = NODE_TYPE_FILE)

\* C18 as stated: build_graph never ends in an exception, and in the returned graph
\* every regular source file of the walk has its File node
C18_NeverAborts == pc # "aborted" /\ (Done => \A f \in WalkedFiles : f.status = "regular" => NodeType(graph.nodes, Filename(f)) = NODE_TYPE_FILE)

\* C18: build_graph has ended in the exception of an open that was refused, and a
\* regular source file of the repository never got its node
C18_AbortedOnUnreadable == pc = "aborted" /\ (\E f \in WalkedFiles : f.status = "unreadable") /\ (\E g \in WalkedFiles : g.status = "regular" /\ ~has_node(graph.nodes, Filename(g)))

\* the edges of the types of T, in order
EdgesOfTypes(es, T) == SelectSeq(es, LAMBDA e : e.type \in T)

\* C19 as stated: a step of the third pass changes neither the nodes nor the Contains and
\* Imports edges
C19_ThirdPassAddsCallEdgesOnly == [][pc = "resolve" => (graph'.nodes = graph.nodes /\ EdgesOfTypes(graph'.edges, {EDGE_TYPE_CONTAINS, EDGE_TYPE_IMPORTS}) = EdgesOfTypes(graph.edges, {EDGE_TYPE_CONTAINS, EDGE_TYPE_IMPORTS}))]_vars

\* C19 amended: a step of the third pass changes neither the nodes nor the Contains
\* edges; it keeps every edge and adds only edges out of the definition node it stands
\* on, of type Invokes, Inherits or Imports
C19_ThirdPassAddsEdgesOfNode == [][pc = "resolve" => (graph'.nodes = graph.nodes /\ EdgesOfTypes(graph'.edges, {EDGE_TYPE_CONTAINS}) = EdgesOfTypes(graph.edges, {EDGE_TYPE_CONTAINS}) /\ Len(graph'.edges) >= Len(graph.edges) /\ SubSeq(graph'.edges, 1, Len(graph.edges)) = graph.edges /\ \A e \in Range(NewEdges(graph, graph')) : e.src = graph.nodes[res_idx].key /\ graph.nodes[res_idx].type \in DEFINITION_TYPES /\ e.type \in {EDGE_TYPE_INVOKES, EDGE_TYPE_INHERITS, EDGE_TYPE_IMPORTS})]_vars

\* C19: x.py: def v(): import json; from t import T as W: the returned graph holds
\* Imports edges out of the Function node x.py:v, to external:json and to t.py:T
C19_ImportsEdgeOfFunction == Done /\ repo = RepoShadow /\ NodeType(graph.nodes, EntityKey(s_x_dot_py, s_v)) = NODE_TYPE_FUNCTION /\ CountEdges(EntityKey(s_x_dot_py, s_v), EXTERNAL \o s_json, EDGE_TYPE_IMPORTS) = 1 /\ CountEdges(EntityKey(s_x_dot_py, s_v), EntityKey(s_t_dot_py, s_T), EDGE_TYPE_IMPORTS) = 1 /\ CountEdges(s_x_dot_py, EXTERNAL \o s_json, EDGE_TYPE_IMPORTS) = 1

\* the entity is declared directly in a class of its file
InClass(fn, e) == LastAt(e.name, ".") # 0 /\ \E c \in Range(FileAt(repo, fn).entities) : c.name = DropLast(e.name, ".") /\ c.type = NODE_TYPE_CLASS

\* C20 as stated: a method that calls the name of another method of its class has an
\* Invokes edge to that method
C20_SiblingMethodCall == Done => \A fn \in ReadFiles : \A m \in Range(FileAt(repo, fn).entities), sib \in Range(FileAt(repo, fn).entities) : (InClass(fn, m) /\ InClass(fn, sib) /\ m.name # sib.name /\ DropLast(m.name, ".") = DropLast(sib.name, ".") /\ m.type = NODE_TYPE_FUNCTION /\ sib.type = NODE_TYPE_FUNCTION /\ SplitLast(sib.name, ".") \in Range(Invocations(repo, graph.nodes, EntityKey(fn, m.name)))) => CountEdges(EntityKey(fn, m.name), EntityKey(fn, sib.name), EDGE_TYPE_INVOKES) >= 1

\* C20: precise mode, s.py: def f(); class C: def m(self): self.f(); def f(self): the
\* returned graph has no Invokes edge from C.m to its sibling C.f
C20_SiblingCallMissed == Done /\ repo = RepoShadow /\ ~fuzzy_search /\ InClass(s_s_dot_py, EntityOf(repo, EntityKey(s_s_dot_py, s_C_dot_m))) /\ InClass(s_s_dot_py, EntityOf(repo, EntityKey(s_s_dot_py, s_C_dot_f))) /\ s_f \in Range(Invocations(repo, graph.nodes, EntityKey(s_s_dot_py, s_C_dot_m))) /\ CountEdges(EntityKey(s_s_dot_py, s_C_dot_m), EntityKey(s_s_dot_py, s_C_dot_f), EDGE_TYPE_INVOKES) = 0 /\ CountFrom(EntityKey(s_s_dot_py, s_C_dot_m)) > 0

\* the node the scope walk of a node ends on (None when the walk runs out of parents)
ScopeEnd(node) == LET walk == ScopeWalk(graph, node, node) IN walk[Len(walk)].cur

\* the function and class nodes the Imports edges of a node lead to
ImportedDefinitions(src) == {graph.edges[i].dst : i \in {j \in 1..Len(graph.edges) : graph.edges[j].src = src /\ graph.edges[j].type = EDGE_TYPE_IMPORTS /\ NodeType(graph.nodes, graph.edges[j].dst) \in {NODE_TYPE_FUNCTION, NODE_TYPE_CLASS}}}

\* C21 as stated: in the returned graph the scope walk of every definition node ends on
\* the File node of the node's file, and what the file imports is among the candidates
\* of the node
C21_WalkReachesOwningFile == Done => \A N \in DefinitionNodes : ScopeEnd(N) = NodeFile(N) /\ NodeType(graph.nodes, NodeFile(N)) = NODE_TYPE_FILE /\ ImportedDefinitions(NodeFile(N)) \subseteq Candidates(N)

\* C21: pkg/Calc.java declares package pkg: the walk of pkg.Calc.perform goes from the
\* class to the Package placeholder, which has no Contains parent, and ends on None
\* without standing on the File node; the candidates then hold the class of another file
C21_WalkLeavesGraph == Done /\ repo = RepoJava /\ NodeType(graph.nodes, EntityKey(PathJoin(s_pkg, s_Calc_dot_java), s_pkg)) = NODE_TYPE_PACKAGE /\ find_parent(graph, EntityKey(PathJoin(s_pkg, s_Calc_dot_java), s_pkg)) = None /\ ScopeEnd(EntityKey(PathJoin(s_pkg, s_Calc_dot_java), s_pkg_dot_Calc_dot_perform)) = None /\ (\A i \in 1..Len(ScopeWalk(graph, EntityKey(PathJoin(s_pkg, s_Calc_dot_java), s_pkg_dot_Calc_dot_perform), EntityKey(PathJoin(s_pkg, s_Calc_dot_java), s_pkg_dot_Calc_dot_perform))) : ScopeWalk(graph, EntityKey(PathJoin(s_pkg, s_Calc_dot_java), s_pkg_dot_Calc_dot_perform), EntityKey(PathJoin(s_pkg, s_Calc_dot_java), s_pkg_dot_Calc_dot_perform))[i].cur # PathJoin(s_pkg, s_Calc_dot_java)) /\ EntityKey(PathJoin(s_pkg, s_Base_dot_java), s_pkg_dot_Base) \in Candidates(EntityKey(PathJoin(s_pkg, s_Calc_dot_java), s_pkg_dot_Calc_dot_perform))

\* the directory holds no file with a supported suffix, itself or below it
NoSourceBelow(d) == \A f \in repo.files : IsSupported(f.name) => (f.dir # d /\ ~StartsWith(f.dir, d \o <<"/">>))

\* C22 as stated: a directory with no supported source file in its subtree is no node of
\* the returned graph
C22_CodelessDirectoryRemoved == Done => \A d \in repo.dirs : NoSourceBelow(d) => ~has_node(graph.nodes, d)

\* C22: the siblings a (notes.txt only) and ab (m.py): a is walked first, 'ab' starts
\* with 'a', and a is a Directory node of the returned graph under the root
C22_PrefixSiblingKept == Done /\ repo.dirs = {s_a, s_ab} /\ NoSourceBelow(s_a) /\ ~NoSourceBelow(s_ab) /\ NodeType(graph.nodes, s_a) = NODE_TYPE_DIRECTORY /\ CountEdges(ROOT, s_a, EDGE_TYPE_CONTAINS) = 1 /\ NodeType(graph.nodes, s_ab) = NODE_TYPE_DIRECTORY

\* the class, interface and enum nodes of the graph whose file the analyzers read
TypeNodes == {N \in DefinitionNodes : NodeType(graph.nodes, N) \in {NODE_TYPE_CLASS, NODE_TYPE_INTERFACE, NODE_TYPE_ENUM} /\ NodeFile(N) \in ReadFiles}

\* C26 as stated: the inheritance names extracted for a class, interface or enum node are
\* the base names of its own declaration, and every Inherits edge out of the node leads
\* to a node named by one of them
C26_OwnBasesOnly == Done => \A N \in TypeNodes : Range(Inheritances(repo, graph.nodes, N)) = Range(EntityOf(repo, N).bases) /\ \A i \in 1..Len(graph.edges) : (graph.edges[i].src = N /\ graph.edges[i].type = EDGE_TYPE_INHERITS) => (ShortName(graph.edges[i].dst) \in Range(EntityOf(repo, N).bases) \/ FullName(graph.edges[i].dst) \in Range(EntityOf(repo, N).bases) \/ \E x \in Range(find_all_possible_callee(graph, N).callee_alias) : x.node = graph.edges[i].dst /\ x.alias \in Range(EntityOf(repo, N).bases))

\* C26: pkg/Calc.java declares `class Calc extends Base implements Op` and
\* `class Helper extends Other`: Base is extracted for Helper, and the returned graph
\* has an Inherits edge from Helper to the class Base
C26_BaseOfOtherType == Done /\ repo = RepoJava /\ Range(EntityOf(repo, EntityKey(PathJoin(s_pkg, s_Calc_dot_java), s_pkg_dot_Helper)).bases) = {s_Other} /\ s_Base \in Range(Inheritances(repo, graph.nodes, EntityKey(PathJoin(s_pkg, s_Calc_dot_java), s_pkg_dot_Helper))) /\ CountEdges(EntityKey(PathJoin(s_pkg, s_Calc_dot_java), s_pkg_dot_Helper), EntityKey(PathJoin(s_pkg, s_Base_dot_java), s_pkg_dot_Base), EDGE_TYPE_INHERITS) >= 1

\* the candidates line 610 collects over the iterations of the scope walk of a node
ContainsCandidates(node) == LET walk == ScopeWalk(graph, node, node) IN Range(Flatten([i \in 1..Len(walk) |-> get_inner_nodes(graph, walk[i].pre, walk[i].cur)]))

\* the node and the nodes above it along find_parent
AncestorChain(node) == LET walk == ScopeWalk(graph, node, node) IN {walk[i].cur : i \in 1..Len(walk)} \ {None}

\* C28 as stated: in the returned graph the candidates the Contains part of the walk of a
\* definition node collects hold neither the node nor any node of its ancestor chain
C28_NoAncestorAmongCandidates == Done => \A N \in DefinitionNodes : ContainsCandidates(N) \cap AncestorChain(N) = {}

\* C28: the walk of pkg.Calc.perform runs out of parents above the Package placeholder:
\* the last get_inner_nodes reads every edge of the graph and collects pkg.Calc.perform
\* itself and its class pkg.Calc
C28_NodeIsItsOwnCandidate == Done /\ repo = RepoJava /\ AncestorChain(EntityKey(PathJoin(s_pkg, s_Calc_dot_java), s_pkg_dot_Calc_dot_perform)) = {EntityKey(PathJoin(s_pkg, s_Calc_dot_java), s_pkg_dot_Calc_dot_perform), EntityKey(PathJoin(s_pkg, s_Calc_dot_java), s_pkg_dot_Calc), EntityKey(PathJoin(s_pkg, s_Calc_dot_java), s_pkg)} /\ {EntityKey(PathJoin(s_pkg, s_Calc_dot_java), s_pkg_dot_Calc_dot_perform), EntityKey(PathJoin(s_pkg, s_Calc_dot_java), s_pkg_dot_Calc)} \subseteq ContainsCandidates(EntityKey(PathJoin(s_pkg, s_Calc_dot_java), s_pkg_dot_Calc_dot_perform)) /\ EntityKey(PathJoin(s_pkg, s_Calc_dot_java), s_pkg) \notin ContainsCandidates(EntityKey(PathJoin(s_pkg, s_Calc_dot_java), s_pkg_dot_Calc_dot_perform))

\* the nodes the third pass links a node to for one extracted name, one per edge added
EdgesOfName(node, name) == ResolveName(fuzzy_search, global_import, global_name_dict, find_all_possible_callee(graph, node), name)

\* C29 as stated: for every definition node of the returned graph, one extracted name
\* gives at most one edge to one target
C29_OneEdgePerNameAndTarget == Done => \A N \in DefinitionNodes : \A t \in {EDGE_TYPE_INVOKES, EDGE_TYPE_INHERITS} : \A name \in Range(NamesOf(N, t)) : \A k \in Range(EdgesOfName(N, name)) : Cardinality({i \in 1..Len(EdgesOfName(N, name)) : EdgesOfName(N, name)[i] = k}) = 1

\* C29: fuzzy mode, a.py: def f(): g(); def g(): the one name g that f calls gives two
\* parallel Invokes edges from a.py:f to the top-level function a.py:g
C29_TwoEdgesForOneName == Done /\ repo = RepoScenario /\ fuzzy_search /\ Dedup(Invocations(repo, graph.nodes, EntityKey(s_a_dot_py, s_f))) = <<s_g>> /\ ShortName(EntityKey(s_a_dot_py, s_g)) = FullName(EntityKey(s_a_dot_py, s_g)) /\ EdgesOfName(EntityKey(s_a_dot_py, s_f), s_g) = <<EntityKey(s_a_dot_py, s_g), EntityKey(s_a_dot_py, s_g)>> /\ CountEdges(EntityKey(s_a_dot_py, s_f), EntityKey(s_a_dot_py, s_g), EDGE_TYPE_INVOKES) = 2

\* C30 as stated: every Invokes or Inherits edge of the returned graph leads to a class,
\* function, method, interface or enum node
C30_CallEdgesLeadToDefinitions == Done => \A i \in 1..Len(graph.edges) : graph.edges[i].type \in {EDGE_TYPE_INVOKES, EDGE_TYPE_INHERITS} => NodeType(graph.nodes, graph.edges[i].dst) \in DEFINITION_TYPES

\* C30: n.py: from tool.conf import cfg as c; def i(): c(); def j(): tool(): cfg is no
\* definition of tool/conf.py, the alias c is bound to the File node, and the returned
\* graph has an Invokes edge from n.py:i to the File node tool/conf.py; with the global
\* fallback it also has one from n.py:j to the Directory node tool
C30_InvokesEdgeToFileAndDirectory == Done /\ repo = RepoNest /\ global_import /\ NodeType(graph.nodes, PathJoin(s_tool, s_conf_dot_py)) = NODE_TYPE_FILE /\ AliasTarget(EntityKey(s_n_dot_py, s_i), s_c) = PathJoin(s_tool, s_conf_dot_py) /\ CountEdges(EntityKey(s_n_dot_py, s_i), PathJoin(s_tool, s_conf_dot_py), EDGE_TYPE_INVOKES) = 1 /\ NodeType(graph.nodes, s_tool) = NODE_TYPE_DIRECTORY /\ Lookup(fuzzy_search, find_all_possible_callee(graph, EntityKey(s_n_dot_py, s_j)), s_tool) = << >> /\ CountEdges(EntityKey(s_n_dot_py, s_j), s_tool, EDGE_TYPE_INVOKES) = 1

\* the aggregator files the walk lists when it stands on a File node
ListedAggregators(file) == AggregatorFiles(graph, file, [file_list |-> << >>, file_stack |-> <<file>>])

\* C23: in every graph of the third pass and in the returned graph, the scope walk of a
\* definition node stands on no node twice, so it ends after at most one iteration per
\* node of the graph and one more; when it ends on a File node the worklist lists every
\* aggregator file once and never the File node itself, so it is emptied after at most
\* one pop per File node
C23_ScopeWalkEnds == pc \in {"resolve", "done"} => \A N \in DefinitionNodes : LET walk == ScopeWalk(graph, N, N) IN (\A i, j \in 1..Len(walk) : walk[i].cur = walk[j].cur => i = j) /\ Len(walk) <= Len(graph.nodes) + 1 /\ WalkStops(graph, ScopeEnd(N)) /\ (NodeType(graph.nodes, ScopeEnd(N)) = NODE_TYPE_FILE => LET fl == ListedAggregators(ScopeEnd(N)) IN (\A i, j \in 1..Len(fl) : fl[i] = fl[j] => i = j) /\ ScopeEnd(N) \notin Range(fl) /\ \A i \in 1..Len(fl) : NodeType(graph.nodes, fl[i]) = NODE_TYPE_FILE /\ EndsWith(fl[i], INIT_PY))

\* C23: p/__init__.py imports q, q/__init__.py imports p, r.py imports p: the walk of
\* r.py:u lists both aggregator files once, the walk of p/__init__.py:s, whose own file is
\* imported by q/__init__.py, lists only q/__init__.py
C23_AggregatorCycle == Done /\ repo = RepoCycle /\ CountEdges(PathJoin(s_p, s__u__u_init_u__u__dot_py), PathJoin(s_q, s__u__u_init_u__u__dot_py), EDGE_TYPE_IMPORTS) = 1 /\ CountEdges(PathJoin(s_q, s__u__u_init_u__u__dot_py), PathJoin(s_p, s__u__u_init_u__u__dot_py), EDGE_TYPE_IMPORTS) = 1 /\ ListedAggregators(s_r_dot_py) = <<PathJoin(s_p, s__u__u_init_u__u__dot_py), PathJoin(s_q, s__u__u_init_u__u__dot_py)>> /\ ScopeEnd(EntityKey(PathJoin(s_p, s__u__u_init_u__u__dot_py), s_s)) = PathJoin(s_p, s__u__u_init_u__u__dot_py) /\ ListedAggregators(PathJoin(s_p, s__u__u_init_u__u__dot_py)) = <<PathJoin(s_q, s__u__u_init_u__u__dot_py)>>

\* the graph as the second pass left it: the third pass only appends edges, all of them
\* out of definition nodes, of type Invokes, Inherits or Imports
AfterImports(G) == [nodes |-> G.nodes, edges |-> SelectSeq(G.edges, LAMBDA e : e.type = EDGE_TYPE_CONTAINS \/ (e.type = EDGE_TYPE_IMPORTS /\ NodeType(G.nodes, e.src) \notin DEFINITION_TYPES))]

\* the graph after a third pass that has processed only the definition node M
AfterOnly(M) == [nodes |-> graph.nodes, edges |-> SelectSeq(graph.edges, LAMBDA e : e.type = EDGE_TYPE_CONTAINS \/ (e.type = EDGE_TYPE_IMPORTS /\ NodeType(graph.nodes, e.src) \notin DEFINITION_TYPES) \/ e.src = M)]

\* the Invokes and Inherits edges the third pass adds for a node when it meets graph G
CallEdgesOf(G, node) == EdgesOfTypes(NewEdges(G, ResolveOne(repo, G, node, fuzzy_search, global_import, global_name_dict)), {EDGE_TYPE_INVOKES, EDGE_TYPE_INHERITS})

\* C24: the Invokes and Inherits edges the third pass adds for a definition node are the
\* same whatever it has processed before: on the graph of the second pass, on the graph
\* after any prefix of the pass, and (in the returned graph) on the graph after any other
\* single node; the edges of the node in the returned graph are these
C24_ResolutionIndependentOfOrder == pc \in {"resolve", "done"} => \A N \in DefinitionNodes : CallEdgesOf(graph, N) = CallEdgesOf(AfterImports(graph), N) /\ (Done => (SameBag(SelectSeq(graph.edges, LAMBDA e : e.src = N /\ e.type \in {EDGE_TYPE_INVOKES, EDGE_TYPE_INHERITS}), CallEdgesOf(AfterImports(graph), N)) /\ \A M \in DefinitionNodes : CallEdgesOf(AfterOnly(M), N) = CallEdgesOf(AfterImports(graph), N)))

\* C24: the returned graph of s.py, t.py, x.py: the pass has added edges, among them the
\* Imports edges of x.py:v, and the edges of s.py:C.m, resolved after other nodes, are
\* those it gets on the graph of the second pass
C24_LaterNodeSameEdges == Done /\ repo = RepoShadow /\ Len(graph.edges) > Len(AfterImports(graph).edges) /\ CountFrom(EntityKey(s_s_dot_py, s_f)) = 0 /\ Len(CallEdgesOf(AfterImports(graph), EntityKey(s_s_dot_py, s_C_dot_m))) >= 2 /\ CallEdgesOf(AfterOnly(EntityKey(s_x_dot_py, s_v)), EntityKey(s_s_dot_py, s_C_dot_m)) = CallEdgesOf(AfterImports(graph), EntityKey(s_s_dot_py, s_C_dot_m)) /\ CountEdges(EntityKey(s_x_dot_py, s_v), EntityKey(s_t_dot_py, s_T), EDGE_TYPE_INVOKES) >= 1

\* the (node, alias) pairs an import record names: the file or external node of a module
\* import, the entity, file or external node of each imported name
RecordTargets(rec) == IF IsModuleImport(rec) THEN {[dst |-> IF resolve_module(repo, rec.module) # None THEN resolve_module(repo, rec.module) ELSE EXTERNAL \o rec.module, alias |-> IF rec.type = "import" THEN rec.alias ELSE None]} ELSE {[dst |-> NamedTarget(graph.nodes, rec.module, rec.entities[j].name), alias |-> rec.entities[j].alias] : j \in 1..Len(rec.entities)}

\* the Python files with a File node whose source the analyzers read
ReadPythonFiles == {fn \in ReadFiles : EndsWith(fn, PY)}

\* C25 as stated: every Imports edge out of the File node of a Python file is the edge of
\* an import statement at the top level of the file
C25_FileImportsTopLevelOnly == Done => \A fn \in ReadPythonFiles : \A i \in 1..Len(graph.edges) : (graph.edges[i].src = fn /\ graph.edges[i].type = EDGE_TYPE_IMPORTS) => \E rec \in Range(FileAt(repo, fn).imports) : [dst |-> graph.edges[i].dst, alias |-> graph.edges[i].alias] \in RecordTargets(rec)

\* C25 amended: every import statement inside a class or function body of a Python file
\* whose target is a node gives an Imports edge out of the File node, with its alias, and
\* an imported function or class is a candidate of every definition node of the file
\* whose scope walk ends on the File node
C25_NestedImportsAtFileToo == Done => \A fn \in ReadPythonFiles : \A rec \in Range(NestedImports(FileAt(repo, fn))) : \A x \in RecordTargets(rec) : has_node(graph.nodes, x.dst) => ((\E i \in 1..Len(graph.edges) : graph.edges[i] = Edge(fn, x.dst, EDGE_TYPE_IMPORTS, x.alias)) /\ (NodeType(graph.nodes, x.dst) \in {NODE_TYPE_FUNCTION, NODE_TYPE_CLASS} => \A M \in DefinitionNodes : (NodeFile(M) = fn /\ ScopeEnd(M) = fn) => x.dst \in Candidates(M)))

\* C25: n.py imports make only inside def k(): the returned graph has the Imports edge
\* from the File node n.py to tool/util.py:make, make is a candidate of n.py:j, and the
\* call make() of j is linked without the global fallback
C25_NestedImportSeenByFile == Done /\ repo = RepoNest /\ ~global_import /\ (\A rec \in Range(FileAt(repo, s_n_dot_py).imports) : rec.module # s_tool_dot_util) /\ From(s_tool_dot_util, s_make, None) \in Range(NestedImports(FileAt(repo, s_n_dot_py))) /\ CountEdges(s_n_dot_py, EntityKey(PathJoin(s_tool, s_util_dot_py), s_make), EDGE_TYPE_IMPORTS) = 1 /\ CountEdges(EntityKey(s_n_dot_py, s_k), EntityKey(PathJoin(s_tool, s_util_dot_py), s_make), EDGE_TYPE_IMPORTS) = 1 /\ EntityKey(PathJoin(s_tool, s_util_dot_py), s_make) \in Candidates(EntityKey(s_n_dot_py, s_j)) /\ CountEdges(EntityKey(s_n_dot_py, s_j), EntityKey(PathJoin(s_tool, s_util_dot_py), s_make), EDGE_TYPE_INVOKES) >= 1

\* the names of the declarations that lexically enclose declaration i, outermost first
RECURSIVE EnclosingNames(_, _)
EnclosingNames(ds, i) == IF ds[i].parent = 0 THEN << >> ELSE EnclosingNames(ds, ds[i].parent) \o <<ds[ds[i].parent].name>>

QualifiedName(unit, i) == DotJoin((IF unit.package # << >> THEN <<unit.package>> ELSE << >>) \o EnclosingNames(unit.decls, i) \o <<unit.decls[i].name>>)

\* C27: with the tree-sitter back end every class, interface, enum, method and
\* constructor declaration of a Java file yields exactly one entity, named by the
\* package, the enclosing declarations and its own name; none is emitted a second
\* time under a shorter name
C27_OneEntityPerDeclaration == pc = "parsed" => SameBag([k \in 1..Len(java_nodes) |-> java_nodes[k].name], [i \in 1..Len(java_unit.decls) |-> QualifiedName(java_unit, i)])

C27_MethodEmittedTwice == pc = "parsed" /\ java_unit = [package |-> s_pkg, decls |-> <<[kind |-> CLASS_DECLARATION, name |-> s_A, parent |-> 0], [kind |-> METHOD_DECLARATION, name |-> s_B, parent |-> 1]>>] /\ java_nodes = <<[name |-> <<"p", "k", "g", ".", "A">>, type |-> NODE_TYPE_CLASS], [name |-> <<"p", "k", "g", ".", "A", ".", "B">>, type |-> NODE_TYPE_FUNCTION], [name |-> <<"p", "k", "g", ".", "B">>, type |-> NODE_TYPE_FUNCTION]>>

====
